---- MODULE Spec2Model ----
(***************************************************************************)
(* Model of the embed message router of vana-react: the VanaAppUploadWidget *)
(* React component (src/src/components/VanaAppUploadWidget.tsx).  Widget    *)
(* instances are mounted, re-rendered and unmounted on one page; the page's *)
(* window dispatches "message" events to the listeners the instances have   *)
(* registered.  The widget is rendered into the document, as render() of    *)
(* the tests does, so a mounted iframe has a contentWindow.                 *)
(***************************************************************************)
EXTENDS Integers, Sequences, FiniteSets, TLC

\* Number of window "message" events dispatched in one run.
MaxMsgs == 2

\* The widget instances that can be on the page at the same time.
Inst == {1, 2}

VARIABLES
    mounted,      \* [Inst -> BOOLEAN]: the instance is mounted (iframeRef.current is set)
    props,        \* [Inst -> props of the instance's last render]
    listeners,    \* sequence of the window's "message" listeners, in registration order
    iframeHeight, \* [Inst -> iframe.style.height]
    lastEvent,    \* the MessageEvent dispatched by the last step, NoEvent if it dispatched none
    calls,        \* callback invocations made while handling lastEvent
    posted,       \* contentWindow.postMessage calls made while handling lastEvent
    threw,        \* instances whose listener threw while handling lastEvent
    prevHeight,   \* iframeHeight before lastEvent was handled
    stats,        \* [Inst -> counters over the life of the mounted instance]
    lastOp,       \* the last step taken: its operation and instance
    nMsgs,        \* number of events dispatched so far
    pending       \* the passive effect of the last commit that has not run yet

vars == <<mounted, props, listeners, iframeHeight, lastEvent, calls, posted,
          threw, prevHeight, stats, lastOp, nMsgs, pending>>

(***************************************************************************)
(* JavaScript values.  Every value is a record of the same shape so that    *)
(* any two of them can be compared, as === compares them.                   *)
(***************************************************************************)
Undefined == [t |-> "undefined", s |-> "", n |-> 0]
Null      == [t |-> "null", s |-> "", n |-> 0]
Str(x)    == [t |-> "string", s |-> x, n |-> 0]
Num(k)    == [t |-> "number", s |-> "", n |-> k]
Obj(id)   == [t |-> "object", s |-> id, n |-> 0]
Bool(b)   == [t |-> "boolean", s |-> "", n |-> IF b THEN 1 ELSE 0]

\* Mutant of Truthy: a value counts when it is neither undefined nor null.
NotNullish(v) == v.t \notin {"undefined", "null"}

\* ToBoolean, as applied by `if (v)`, `a && b` and `a || b`.
Truthy(v) ==
    CASE v.t = "undefined" -> FALSE
      [] v.t = "null"      -> FALSE
      [] v.t = "string"    -> v.s # ""
      [] v.t = "number"    -> v.n # 0
      [] v.t = "boolean"   -> v.n # 0
      [] OTHER             -> TRUE

\* a || b
OrElse(a, b) == IF Truthy(a) THEN a ELSE b

Digits == <<"0", "1", "2", "3", "4", "5", "6", "7", "8", "9">>

RECURSIVE NatToString(_)
NatToString(k) ==
    IF k < 10 THEN Digits[k + 1]
    ELSE NatToString(k \div 10) \o Digits[(k % 10) + 1]

\* ToString of a value interpolated in a template literal.
JsToString(v) ==
    CASE v.t = "string" -> v.s
      [] v.t = "number" -> NatToString(v.n)
      [] v.t = "object" -> "[object Object]"
      [] v.t = "boolean" -> IF v.n # 0 THEN "true" ELSE "false"
      [] OTHER          -> v.t

(***************************************************************************)
(* Props and the handleMessage closure.                                     *)
(***************************************************************************)
DefaultOrigin   == "https://app.vana.com"
CustomOrigin    == "https://custom.vana.com"
MaliciousOrigin == "https://malicious.com"
PageOrigin      == "http://localhost:3000"

\* The props the widget is rendered with.  Callbacks are named by identity;
\* onClose and the optional props may be undefined.
BaseProps ==
    [appId |-> "test-app-123", schemaId |-> Undefined, prompt |-> Undefined,
     theme |-> Undefined, iframeOrigin |-> Undefined,
     onResult |-> "onResult#1", onError |-> "onError#1", onAuth |-> "onAuth#1",
     onClose |-> "undefined", className |-> "undefined"]

PropsChoices ==
    { BaseProps,
      [BaseProps EXCEPT !.className = "custom-widget-class"],
      [BaseProps EXCEPT !.schemaId = Num(123), !.prompt = Str("Test prompt"),
                        !.onClose = "onClose#1"],
      [BaseProps EXCEPT !.appId = "app-2", !.theme = Obj("theme"),
                        !.iframeOrigin = Str(CustomOrigin),
                        !.onResult = "onResult#2", !.onError = "onError#2",
                        !.onAuth = "onAuth#2", !.onClose = "onClose#2"] }

\* iframeOrigin = "https://app.vana.com" default parameter.
IframeOriginOf(p) ==
    IF p.iframeOrigin = Undefined THEN DefaultOrigin ELSE p.iframeOrigin.s

\* iframeSrc
IframeSrc(p) == IframeOriginOf(p) \o "/embed/upload"

\* The values handleMessage closes over: the dependency list of useCallback.
\* Two renders give the same handleMessage function iff these are equal.
Closure(p) ==
    [appId |-> p.appId, schemaId |-> p.schemaId, prompt |-> p.prompt,
     theme |-> p.theme, iframeOrigin |-> IframeOriginOf(p),
     onAuth |-> p.onAuth, onResult |-> p.onResult, onError |-> p.onError,
     onClose |-> p.onClose]

(***************************************************************************)
(* Message events.                                                          *)
(***************************************************************************)
\* event.data: null, undefined, a primitive, or an object.  An absent
\* property reads as undefined, so an object is given by the values of the
\* properties the handler reads.
NoFields ==
    [type |-> Undefined, data |-> Undefined, walletAddress |-> Undefined,
     result |-> Undefined, message |-> Undefined, error |-> Undefined,
     height |-> Undefined]

DataNull      == [kind |-> "null", f |-> NoFields]
DataUndefined == [kind |-> "undefined", f |-> NoFields]
DataPrimitive == [kind |-> "primitive", f |-> NoFields]
DataObject(fields) == [kind |-> "object", f |-> fields]

Tagged(tag) == [NoFields EXCEPT !.type = Str(tag)]

MessageData ==
    { DataNull, DataUndefined, DataPrimitive, DataObject(NoFields),
      DataObject(Tagged("ready")), DataObject(Tagged("close")),
      DataObject(Tagged("bogus")) }
    \cup { DataObject([Tagged("relay") EXCEPT !.data = v]) :
             v \in {Undefined, Obj("relayData"), Str(""), Num(0), Bool(FALSE)} }
    \cup { DataObject([Tagged("auth") EXCEPT !.walletAddress = v]) :
             v \in {Undefined, Str("0x123456789"), Str("")} }
    \cup { DataObject([Tagged("complete") EXCEPT !.result = v]) :
             v \in {Undefined, Str("success-data"), Str("")} }
    \cup { DataObject([Tagged("error") EXCEPT !.message = m, !.error = e]) :
             m \in {Undefined, Str("Something went wrong"), Str("")},
             e \in {Undefined, Str("Error from field")} }
    \cup { DataObject([Tagged("resize") EXCEPT !.height = v]) :
             v \in {Undefined, Num(0), Num(500), Num(750)} }

Origins == {DefaultOrigin, CustomOrigin, MaliciousOrigin}

Events == [origin : Origins, data : MessageData]

NoEvent == [origin |-> "", data |-> DataUndefined]

(***************************************************************************)
(* handleMessage.                                                           *)
(***************************************************************************)
\* The effects of handling one event: callbacks invoked, messages posted to
\* iframes, listeners that threw, and the iframes' heights.
NoEffects(h) == [calls |-> <<>>, posted |-> <<>>, threw |-> {}, height |-> h]

\* Mutant of PostMessage: the message is posted to any origin.
PostMessageWildcard(st, i, message, targetOrigin) ==
    [st EXCEPT !.posted =
        Append(@, [inst |-> i, message |-> message, targetOrigin |-> "*"])]

\* iframeRef.current.contentWindow.postMessage(message, targetOrigin)
PostMessage(st, i, message, targetOrigin) ==
    [st EXCEPT !.posted =
        Append(@, [inst |-> i, message |-> message, targetOrigin |-> targetOrigin])]

\* A call of a callback prop.
Invoke(st, i, cb, fn, arg) ==
    [st EXCEPT !.calls = Append(@, [inst |-> i, cb |-> cb, fn |-> fn, arg |-> arg])]

\* Mutant of ConfigMessage: the prompt is sent under its prop name.
ConfigMessagePromptKey(d) ==
    [type |-> Str("config"), appId |-> d.appId, schemaId |-> d.schemaId,
     prompt |-> d.prompt, embeddingOrigin |-> PageOrigin, theme |-> d.theme]

\* The outbound config message of case "ready".
ConfigMessage(d) ==
    [type |-> Str("config"), appId |-> d.appId, schemaId |-> d.schemaId,
     aiPrompt |-> d.prompt, embeddingOrigin |-> PageOrigin, theme |-> d.theme]

\* Mutant of HeightPx: the height is assigned without its unit.
HeightPxBare(h) == JsToString(h)

\* `${data.height}px`
HeightPx(h) == JsToString(h) \o "px"

\* const { type, ...data } = event.data throws a TypeError for null and undefined.
Destructurable(data) == data.kind \notin {"null", "undefined"}

\* Mutant of CaseReady: the config message is posted twice.
CaseReadyTwice(d, i, ref, data, st) ==
    IF ref
    THEN PostMessage(PostMessage(st, i, ConfigMessage(d), d.iframeOrigin),
                     i, ConfigMessage(d), d.iframeOrigin)
    ELSE st

\* case "ready": the config message is posted to the iframe.  d is the
\* closure of the handler, i the instance it belongs to, ref whether
\* iframeRef.current (and so its contentWindow) is set.
CaseReady(d, i, ref, data, st) ==
    IF ref THEN PostMessage(st, i, ConfigMessage(d), d.iframeOrigin) ELSE st

\* Mutant of CaseRelay: the relay message is forwarded as received, not its payload.
CaseRelayWrapped(d, i, ref, data, st) ==
    IF ref /\ Truthy(data.data)
    THEN PostMessage(st, i, [type |-> Str("relay"), data |-> data.data], d.iframeOrigin)
    ELSE st

\* case "relay"
CaseRelay(d, i, ref, data, st) ==
    IF ref /\ Truthy(data.data)
    THEN PostMessage(st, i, data.data, d.iframeOrigin) ELSE st

\* Mutant of CaseAuth: the wallet address is also posted to the iframe.
CaseAuthAndPost(d, i, ref, data, st) ==
    IF Truthy(data.walletAddress)
    THEN PostMessage(Invoke(st, i, "onAuth", d.onAuth, data.walletAddress),
                     i, data.walletAddress, d.iframeOrigin)
    ELSE st

\* Mutant of CaseAuth: the walletAddress check is missing.
CaseAuthUnchecked(d, i, ref, data, st) ==
    Invoke(st, i, "onAuth", d.onAuth, data.walletAddress)

\* case "auth"
CaseAuth(d, i, ref, data, st) ==
    IF Truthy(data.walletAddress)
    THEN Invoke(st, i, "onAuth", d.onAuth, data.walletAddress) ELSE st

\* Mutant of CaseComplete: the result is delivered only when the instance
\* has delivered none before.
CaseCompleteOnce(d, i, ref, data, st) ==
    IF Truthy(data.result) /\ stats[i].onResult = 0
    THEN Invoke(st, i, "onResult", d.onResult, data.result) ELSE st

\* case "complete"
CaseComplete(d, i, ref, data, st) ==
    IF Truthy(data.result)
    THEN Invoke(st, i, "onResult", d.onResult, data.result) ELSE st

\* Mutant of ErrorMessage: the error field is preferred to the message field.
ErrorMessageErrorFirst(data) ==
    OrElse(data.error, OrElse(data.message, Str("An error occurred")))

\* data.message || data.error || "An error occurred"
ErrorMessage(data) ==
    OrElse(data.message, OrElse(data.error, Str("An error occurred")))

\* case "error"
CaseError(d, i, ref, data, st) ==
    Invoke(st, i, "onError", d.onError, ErrorMessage(data))

\* case "resize"
CaseResize(d, i, ref, data, st) ==
    IF Truthy(data.height) /\ ref
    THEN [st EXCEPT !.height[i] = HeightPx(data.height)] ELSE st

\* Mutant of CaseClose: onClose is called without the check that it was
\* supplied; calling undefined throws a TypeError.
CaseCloseUnchecked(d, i, ref, data, st) ==
    IF d.onClose # "undefined"
    THEN Invoke(st, i, "onClose", d.onClose, Undefined)
    ELSE [st EXCEPT !.threw = @ \cup {i}]

\* case "close"
CaseClose(d, i, ref, data, st) ==
    IF d.onClose # "undefined"
    THEN Invoke(st, i, "onClose", d.onClose, Undefined) ELSE st

\* Mutant of Switch: the default case reports the unknown tag through onError.
SwitchDefaultError(d, i, ref, type, data, st) ==
    CASE type = Str("ready")    -> CaseReady(d, i, ref, data, st)
      [] type = Str("relay")    -> CaseRelay(d, i, ref, data, st)
      [] type = Str("auth")     -> CaseAuth(d, i, ref, data, st)
      [] type = Str("complete") -> CaseComplete(d, i, ref, data, st)
      [] type = Str("error")    -> CaseError(d, i, ref, data, st)
      [] type = Str("resize")   -> CaseResize(d, i, ref, data, st)
      [] type = Str("close")    -> CaseClose(d, i, ref, data, st)
      [] OTHER                  -> Invoke(st, i, "onError", d.onError,
                                          Str("Unknown message type"))

\* Mutant of Switch: a router that never leaves the Idle state handles only
\* ready, resize and close.
SwitchIdle(d, i, ref, type, data, st) ==
    CASE type = Str("ready")    -> CaseReady(d, i, ref, data, st)
      [] type = Str("resize")   -> CaseResize(d, i, ref, data, st)
      [] type = Str("close")    -> CaseClose(d, i, ref, data, st)
      [] OTHER                  -> st

\* The switch over the type tag; the default case has no effect (it logs in
\* development builds).
Switch(d, i, ref, type, data, st) ==
    CASE type = Str("ready")    -> CaseReady(d, i, ref, data, st)
      [] type = Str("relay")    -> CaseRelay(d, i, ref, data, st)
      [] type = Str("auth")     -> CaseAuth(d, i, ref, data, st)
      [] type = Str("complete") -> CaseComplete(d, i, ref, data, st)
      [] type = Str("error")    -> CaseError(d, i, ref, data, st)
      [] type = Str("resize")   -> CaseResize(d, i, ref, data, st)
      [] type = Str("close")    -> CaseClose(d, i, ref, data, st)
      [] OTHER                  -> st

\* Mutant of OriginAccepted: the origin check is missing.
OriginAcceptedAny(d, ev) == TRUE

\* The origin check at the head of handleMessage.
OriginAccepted(d, ev) == ev.origin = d.iframeOrigin

\* The window of the iframe of instance i, as event.source names it.
IframeWindow(i) == "iframe#" \o NatToString(i)

\* Mutant of HandleMessage: a message is handled only when the iframe of the
\* instance sent it.
HandleMessageOwnIframe(d, i, ref, ev, st) ==
    IF ev.source # IframeWindow(i) THEN st
    ELSE IF ~OriginAccepted(d, ev) THEN st
    ELSE IF ~Destructurable(ev.data) THEN [st EXCEPT !.threw = @ \cup {i}]
    ELSE Switch(d, i, ref, ev.data.f.type, ev.data.f, st)

HandleMessage(d, i, ref, ev, st) ==
    IF ~OriginAccepted(d, ev) THEN st
    ELSE IF ~Destructurable(ev.data) THEN [st EXCEPT !.threw = @ \cup {i}]
    ELSE Switch(d, i, ref, ev.data.f.type, ev.data.f, st)

(***************************************************************************)
(* The window's listener list and the dispatch of one event.                *)
(***************************************************************************)
\* A registered listener: the handleMessage function of instance inst that
\* closes over fn.
Listener(i, p) == [inst |-> i, fn |-> Closure(p)]

\* window.addEventListener("message", l): a listener already registered is
\* not registered twice.
AddEventListener(ls, l) ==
    IF \E k \in DOMAIN ls : ls[k] = l THEN ls ELSE Append(ls, l)

\* window.removeEventListener("message", l)
RemoveEventListener(ls, l) == SelectSeq(ls, LAMBDA x : x # l)

\* The window calls the listeners in registration order; a listener that
\* throws does not stop the ones after it.
RECURSIVE RunListeners(_, _, _, _, _)
RunListeners(ls, k, isMounted, ev, st) ==
    IF k > Len(ls) THEN st
    ELSE RunListeners(ls, k + 1, isMounted, ev,
                      HandleMessage(ls[k].fn, ls[k].inst, isMounted[ls[k].inst], ev, st))

CountCalls(cs, i, cb) == Cardinality({k \in DOMAIN cs : cs[k].inst = i /\ cs[k].cb = cb})

\* The posted messages of instance i that are config messages.
IsConfig(message) == "type" \in DOMAIN message /\ message.type = Str("config")

CountConfigs(ps, i) ==
    Cardinality({k \in DOMAIN ps : ps[k].inst = i /\ IsConfig(ps[k].message)})

\* The event carries the type tag `tag`.
IsTag(ev, tag) == Destructurable(ev.data) /\ ev.data.f.type = Str(tag)

\* The number of listeners of instance i whose configured origin is the event's.
CountAccepting(ls, i, ev) ==
    Cardinality({k \in DOMAIN ls : ls[k].inst = i /\ OriginAccepted(ls[k].fn, ev)})

NoStats == [ready |-> 0, config |-> 0, complete |-> 0, onResult |-> 0, onError |-> 0]

\* The counters of instance i after an event was handled with effects st:
\* ready and complete (with a result) messages received from the configured
\* origin, config messages posted, onResult and onError invocations.
Counted(old, ls, i, ev, st) ==
    [ready    |-> old.ready +
                  (IF IsTag(ev, "ready") THEN CountAccepting(ls, i, ev) ELSE 0),
     config   |-> old.config + CountConfigs(st.posted, i),
     complete |-> old.complete +
                  (IF IsTag(ev, "complete") /\ Truthy(ev.data.f.result)
                   THEN CountAccepting(ls, i, ev) ELSE 0),
     onResult |-> old.onResult + CountCalls(st.calls, i, "onResult"),
     onError  |-> old.onError + CountCalls(st.calls, i, "onError")]

(***************************************************************************)
(* Actions.                                                                 *)
(***************************************************************************)
\* A step that dispatches no event leaves no event effects behind.
ClearEffects(h) ==
    /\ lastEvent' = NoEvent
    /\ calls' = <<>>
    /\ posted' = <<>>
    /\ threw' = {}
    /\ prevHeight' = h

\* The effect of useEffect on mount: the listener is added.
MountEffect(ls, i, p) == AddEventListener(ls, Listener(i, p))

\* The effect of useEffect on a re-render: when handleMessage changed, the
\* cleanup of the previous effect runs and then the new effect.
RerenderEffect(ls, i, old, new) ==
    IF Closure(new) = Closure(old) THEN ls
    ELSE AddEventListener(RemoveEventListener(ls, Listener(i, old)), Listener(i, new))

\* The cleanup of useEffect on unmount: the listener is removed.
UnmountEffect(ls, i, p) == RemoveEventListener(ls, Listener(i, p))

\* A commit schedules the passive effects of the component: the effect of a
\* first render, the cleanup and effect of a re-render that changed
\* handleMessage (old is the props of the render before), or the cleanup of
\* an unmount (old is the props of the last render).
NoPending == [op |-> "none", inst |-> 0, old |-> BaseProps]
PendingEffect(op, i, old) == [op |-> op, inst |-> i, old |-> old]

\* The listeners after the pending passive effect pe has run; ps are the
\* props of the last renders.
FlushPassiveEffects(ls, pe, ps) ==
    CASE pe.op = "mount"    -> MountEffect(ls, pe.inst, ps[pe.inst])
      [] pe.op = "rerender" -> RerenderEffect(ls, pe.inst, pe.old, ps[pe.inst])
      [] pe.op = "unmount"  -> UnmountEffect(ls, pe.inst, pe.old)
      [] OTHER              -> ls

\* A render starts by running the passive effects still pending; its commit
\* schedules the effect pe, which runs within the same step when the
\* render is synchronous (as under act() in the tests) and in a later step
\* otherwise.  ps are the props after the commit.
Committed(pe, ps, sync) ==
    LET ls == FlushPassiveEffects(listeners, pending, props) IN
    IF sync
    THEN /\ listeners' = FlushPassiveEffects(ls, pe, ps)
         /\ pending' = NoPending
    ELSE /\ listeners' = ls
         /\ pending' = pe

\* First render of instance i with props p: the iframe is in the document
\* and iframeRef.current is set; the effect that adds the listener is
\* scheduled.
Mount(i) ==
    /\ ~mounted[i]
    /\ \E p \in PropsChoices, sync \in BOOLEAN :
         /\ props' = [props EXCEPT ![i] = p]
         /\ Committed(PendingEffect("mount", i, p), [props EXCEPT ![i] = p], sync)
    /\ mounted' = [mounted EXCEPT ![i] = TRUE]
    /\ iframeHeight' = [iframeHeight EXCEPT ![i] = ""]
    /\ stats' = [stats EXCEPT ![i] = NoStats]
    /\ ClearEffects([iframeHeight EXCEPT ![i] = ""])
    /\ lastOp' = [op |-> "mount", inst |-> i]
    /\ UNCHANGED nMsgs

\* Re-render of instance i with props p.  The effect depends on
\* handleMessage: it is scheduled when the render built a new one.
Rerender(i) ==
    /\ mounted[i]
    /\ \E p \in PropsChoices \ {props[i]}, sync \in BOOLEAN :
         /\ props' = [props EXCEPT ![i] = p]
         /\ Committed(IF Closure(p) = Closure(props[i]) THEN NoPending
                      ELSE PendingEffect("rerender", i, props[i]),
                      [props EXCEPT ![i] = p], sync)
    /\ ClearEffects(iframeHeight)
    /\ lastOp' = [op |-> "rerender", inst |-> i]
    /\ UNCHANGED <<mounted, iframeHeight, stats, nMsgs>>

\* Unmount of instance i: the iframe is gone and iframeRef.current is null;
\* the cleanup that removes the listener is scheduled.
Unmount(i) ==
    /\ mounted[i]
    /\ \E sync \in BOOLEAN :
         Committed(PendingEffect("unmount", i, props[i]), props, sync)
    /\ mounted' = [mounted EXCEPT ![i] = FALSE]
    /\ iframeHeight' = [iframeHeight EXCEPT ![i] = ""]
    /\ stats' = [stats EXCEPT ![i] = NoStats]
    /\ ClearEffects([iframeHeight EXCEPT ![i] = ""])
    /\ lastOp' = [op |-> "unmount", inst |-> i]
    /\ UNCHANGED <<props, nMsgs>>

\* The passive effect a commit scheduled runs.
RunEffects ==
    /\ pending # NoPending
    /\ listeners' = FlushPassiveEffects(listeners, pending, props)
    /\ pending' = NoPending
    /\ ClearEffects(iframeHeight)
    /\ lastOp' = [op |-> "effect", inst |-> pending.inst]
    /\ UNCHANGED <<mounted, props, iframeHeight, stats, nMsgs>>

\* The window dispatches a "message" event to the registered listeners.
Dispatch ==
    /\ nMsgs < MaxMsgs
    /\ \E ev \in Events :
       \E st \in {RunListeners(listeners, 1, mounted, ev, NoEffects(iframeHeight))} :
         /\ lastEvent' = ev
         /\ calls' = st.calls
         /\ posted' = st.posted
         /\ threw' = st.threw
         /\ prevHeight' = iframeHeight
         /\ iframeHeight' = st.height
         /\ stats' = [i \in Inst |-> Counted(stats[i], listeners, i, ev, st)]
    /\ nMsgs' = nMsgs + 1
    /\ lastOp' = [op |-> "dispatch", inst |-> 0]
    /\ UNCHANGED <<mounted, props, listeners, pending>>

\* The windows that send messages to the page: the iframes of the instances
\* and a window the embedded application opened.
Sources == {IframeWindow(i) : i \in Inst} \cup {"popup"}

\* Messages the embedded application sends, one of each tag.
SentData ==
    { DataObject(Tagged("ready")), DataObject(Tagged("close")),
      DataObject([Tagged("relay") EXCEPT !.data = Obj("relayData")]),
      DataObject([Tagged("auth") EXCEPT !.walletAddress = Str("0x123456789")]),
      DataObject([Tagged("complete") EXCEPT !.result = Str("success-data")]),
      DataObject([Tagged("error") EXCEPT !.message = Str("Something went wrong")]),
      DataObject([Tagged("resize") EXCEPT !.height = Num(500)]) }

\* Message events with the window that sent them (event.source).
SentEvents == [origin : Origins, data : SentData, source : Sources]

\* The window dispatches a "message" event that names its sender to the
\* registered listeners.
DispatchFrom ==
    /\ nMsgs < MaxMsgs
    /\ \E ev \in SentEvents :
       \E st \in {RunListeners(listeners, 1, mounted, ev, NoEffects(iframeHeight))} :
         /\ lastEvent' = ev
         /\ calls' = st.calls
         /\ posted' = st.posted
         /\ threw' = st.threw
         /\ prevHeight' = iframeHeight
         /\ iframeHeight' = st.height
         /\ stats' = [i \in Inst |-> Counted(stats[i], listeners, i, ev, st)]
    /\ nMsgs' = nMsgs + 1
    /\ lastOp' = [op |-> "dispatch", inst |-> 0]
    /\ UNCHANGED <<mounted, props, listeners, pending>>

(***************************************************************************)
(* The share widget: the VanaAppSocialShareWidget React component            *)
(* (src/unnamed/part_002).  The source holds two revisions of it: the        *)
(* countdown revision composes a decorated text and opens the platform after *)
(* a countdown toast; the suffix revision appends a suffix to the content    *)
(* and shows a toast with instructions.  A page runs one of them.            *)
(***************************************************************************)
\* The share widget instances that can be on the page at the same time.
ShInst == {1, 2}

VARIABLES
    variant,       \* the revision of the component the page runs: "countdown" or "suffix"
    shMounted,     \* [ShInst -> BOOLEAN]
    shProps,       \* [ShInst -> props of the instance's last render]
    internalToast, \* [ShInst -> internalToast.message, Null when there is none]
    toastTimerRef, \* [ShInst -> toastTimerRef.current: a timer id, 0 when undefined]
    timers,        \* the live timers of the page (setTimeout / setInterval)
    nextTimerId,   \* the id the next timer gets
    effects,       \* what the last step did, in order
    shLastOp,      \* the last step taken: operation, instance, platform
    nClicks,       \* [ShInst -> clicks on share buttons so far]
    nWrites,       \* [ShInst -> navigator.clipboard.writeText calls so far]
    nOpens,        \* [ShInst -> window.open calls so far]
    shown,         \* [ShInst -> the last click of this mount that showed a toast: the
                   \*  time since, its duration, whether it replaced a live timer,
                   \*  its platform and the text it copied]
    shPending,     \* the unmounted instance whose effect cleanup has not run yet,
                   \* 0 when there is none
    page           \* the widgets the application renders on the page: the upload
                   \* widget instances and the share widget instances

shareVars == <<variant, shMounted, shProps, internalToast, toastTimerRef, timers,
               nextTimerId, effects, shLastOp, nClicks, nWrites, nOpens, shown,
               shPending, page>>

\* A default parameter value applies when the prop is undefined.
Default(v, d) == IF v = Undefined THEN d ELSE v

(***************************************************************************)
(* Numbers of the countdown.  A JavaScript number is an IEEE-754 double; the *)
(* values of the countdown are multiples of 2^-51 below 128, held as         *)
(* <<hi, lo>> = hi * 2^30 + lo in that unit.  The result of an operation is   *)
(* rounded to 53 significant bits, ties to even.                             *)
(***************************************************************************)
LimbBase == 2^30

\* The integer n as a double.
DblOf(n) == <<n * 2^21, 0>>

DblLess(a, b) == a[1] < b[1] \/ (a[1] = b[1] /\ a[2] < b[2])

\* a + a
DblDouble(a) ==
    IF 2 * a[2] >= LimbBase THEN <<2 * a[1] + 1, 2 * a[2] - LimbBase>>
    ELSE <<2 * a[1], 2 * a[2]>>

\* a + m units, for a small m
DblPlus(a, m) ==
    IF a[2] + m >= LimbBase THEN <<a[1] + 1, a[2] + m - LimbBase>>
    ELSE <<a[1], a[2] + m>>

\* a - b exactly, for a >= b
DblMinus(a, b) ==
    IF a[2] >= b[2] THEN <<a[1] - b[1], a[2] - b[2]>>
    ELSE <<a[1] - b[1] - 1, (a[2] - b[2]) + LimbBase>>

\* The spacing, in units, of the doubles of the binade of a value whose high
\* limb is hi: 1 below 2^53 units, doubling with every binade above.
RECURSIVE UlpOf(_, _)
UlpOf(hi, m) == IF hi < 2^23 THEN m ELSE UlpOf(hi \div 2, 2 * m)

\* Round to nearest, ties to even.
FlRound(a) ==
    LET m    == UlpOf(a[1], 1)
        r    == a[2] % m
        down == <<a[1], a[2] - r>>
        up   == DblPlus(down, m)
    IN  IF 2 * r < m THEN down
        ELSE IF 2 * r > m THEN up
        ELSE IF ((a[2] - r) \div m) % 2 = 0 THEN down ELSE up

\* a - b of JavaScript for 0 <= b <= a
FlMinus(a, b) == FlRound(DblMinus(a, b))

\* The number of bits of the positive integer n.
RECURSIVE BitLength(_)
BitLength(n) == IF n = 0 THEN 0 ELSE 1 + BitLength(n \div 2)

RECURSIVE DblShift(_, _)
DblShift(a, k) == IF k = 0 THEN a ELSE DblShift(DblDouble(a), k - 1)

\* n / q of JavaScript for positive integers n < 2^9 and q < 2^16 with
\* 2 <= n / q: the quotient to 53 significant bits.  With k + 1 bits before
\* the binary point it has 52 - k after it; they are computed 30 bits (the
\* low limb, in two halves) below the high limb, rounded to nearest, ties to
\* even, and scaled to the unit.
FlDiv(n, q) ==
    LET k  == BitLength(n \div q) - 1
        t  == n * 2^(22 - k)
        r1 == t % q
        r2 == (r1 * 2^15) % q
        r3 == (r2 * 2^15) % q
        lo == ((r1 * 2^15) \div q) * 2^15 + ((r2 * 2^15) \div q)
        raw == <<t \div q, lo>>
    IN  DblShift(IF 2 * r3 > q \/ (2 * r3 = q /\ lo % 2 = 1)
                 THEN DblPlus(raw, 1) ELSE raw,
                 k - 1)

\* Math.max(0, a - b) for doubles a, b >= 0
MaxZeroMinus(a, b) == IF DblLess(a, b) THEN <<0, 0>> ELSE FlMinus(a, b)

\* Math.ceil(p / c) for doubles 0 <= p <= 3c with c in the binade of 32.  The
\* rounded quotient is above the integer j exactly when p > j * c: the
\* doubles next above j * c exceed it by a larger factor than 1 + 2^-53 * 2/j.
CeilQuot(p, c) ==
    IF p = <<0, 0>> THEN 0
    ELSE IF ~DblLess(c, p) THEN 1
    ELSE IF ~DblLess(DblDouble(c), p) THEN 2
    ELSE 3

(***************************************************************************)
(* Strings.                                                                  *)
(***************************************************************************)
\* The k-th character of s.
CharAt(s, k) == SubSeq(s, k, k)

\* s.includes(sub)
Contains(s, sub) ==
    \E k \in 1..(Len(s) - Len(sub) + 1) : SubSeq(s, k, k + Len(sub) - 1) = sub

\* The index of the first occurrence of sub in s, 0 when there is none.
IndexOf(s, sub) ==
    IF Contains(s, sub)
    THEN CHOOSE k \in 1..(Len(s) - Len(sub) + 1) :
            /\ SubSeq(s, k, k + Len(sub) - 1) = sub
            /\ \A j \in 1..(k - 1) : SubSeq(s, j, j + Len(sub) - 1) # sub
    ELSE 0

\* Mutant of Replace: nothing is replaced.
ReplaceNone(s, sub, by) == s

\* s.replace(sub, by) with a string pattern: the first occurrence is replaced.
Replace(s, sub, by) ==
    LET k == IndexOf(s, sub) IN
    IF k = 0 THEN s
    ELSE SubSeq(s, 1, k - 1) \o by \o SubSeq(s, k + Len(sub), Len(s))

LowerLetters == "abcdefghijklmnopqrstuvwxyz"
UpperLetters == "ABCDEFGHIJKLMNOPQRSTUVWXYZ"

\* One character mapped from the alphabet `from` to the alphabet `to`.
MapChar(c, from, to) ==
    IF Contains(from, c) THEN CharAt(to, IndexOf(from, c)) ELSE c

\* Every character of s mapped, the halves of s one after the other.
RECURSIVE MapString(_, _, _)
MapString(s, from, to) ==
    IF s = "" THEN ""
    ELSE IF Len(s) = 1 THEN MapChar(s, from, to)
    ELSE MapString(SubSeq(s, 1, Len(s) \div 2), from, to)
            \o MapString(SubSeq(s, Len(s) \div 2 + 1, Len(s)), from, to)

ToUpperCase(s) == MapString(s, LowerLetters, UpperLetters)
\* Mutant of ToLowerCase: the string is passed on as it is.
KeepCase(s) == s

ToLowerCase(s) == MapString(s, UpperLetters, LowerLetters)

\* platform.charAt(0).toUpperCase() + platform.slice(1)
Capitalize(s) == ToUpperCase(SubSeq(s, 1, 1)) \o SubSeq(s, 2, Len(s))

\* The characters encodeURIComponent escapes, among those of the texts of the
\* model, with their escapes.
Escapes ==
    [c \in {" ", "\n", "#", "@", ":", ",", "/", "?", "&", "=", "+", "%"} |->
        CASE c = " "  -> "%20"
          [] c = "\n" -> "%0A"
          [] c = "#"  -> "%23"
          [] c = "@"  -> "%40"
          [] c = ":"  -> "%3A"
          [] c = ","  -> "%2C"
          [] c = "/"  -> "%2F"
          [] c = "?"  -> "%3F"
          [] c = "&"  -> "%26"
          [] c = "="  -> "%3D"
          [] c = "+"  -> "%2B"
          [] c = "%"  -> "%25"]

\* Every character of s escaped or kept, the halves of s one after the other.
RECURSIVE EncodeURIComponent(_)
EncodeURIComponent(s) ==
    IF s = "" THEN ""
    ELSE IF Len(s) = 1 THEN (IF s \in DOMAIN Escapes THEN Escapes[s] ELSE s)
    ELSE EncodeURIComponent(SubSeq(s, 1, Len(s) \div 2))
            \o EncodeURIComponent(SubSeq(s, Len(s) \div 2 + 1, Len(s)))

(***************************************************************************)
(* Props and the composed text.                                              *)
(***************************************************************************)
\* The props the share widget is rendered with; a revision reads the ones it
\* declares.  Callbacks are named by identity.
BaseShareProps ==
    [appName |-> Undefined, shareContent |-> Str("Test content"),
     shareEmoji |-> Undefined, funnyNote |-> Undefined,
     callToAction |-> Undefined, hashtag |-> Undefined, suffix |-> Undefined,
     hideToast |-> Undefined, toastDuration |-> Undefined,
     onCopySuccess |-> "undefined", onShare |-> "undefined"]

SharePropsChoices ==
    { BaseShareProps,
      [BaseShareProps EXCEPT !.appName = Str("Test App")],
      [BaseShareProps EXCEPT !.appName = Str("Test App"),
                             !.shareEmoji = Str(":)"),
                             !.funnyNote = Str("This is amazing!"),
                             !.suffix = Str("\n\nCustom suffix"),
                             !.toastDuration = Num(2000),
                             !.onCopySuccess = "onCopySuccess#1",
                             !.onShare = "onShare#1"],
      [BaseShareProps EXCEPT !.appName = Str("Ice Cream Flavor"),
                             !.shareContent = Str("New content"),
                             !.shareEmoji = Str(""), !.funnyNote = Str(""),
                             !.callToAction = Str("Discover your flavor @ app.vana.com"),
                             !.hashtag = Str("#ICECREAM"),
                             !.suffix = Str(""), !.hideToast = Bool(TRUE),
                             !.onCopySuccess = "onCopySuccess#2",
                             !.onShare = "onShare#2"] }

\* The platforms of SHARE_BUTTONS.
Platforms == {"twitter", "facebook", "linkedin", "instagram"}

\* The default values of the props.
DefaultCallToAction == "Try @ app.vana.com"
DefaultHashtag      == "#DATAREVOLUTION"
DefaultSuffix       == "\n\nTry @ app.vana.com\n#datarevolution"
DefaultToastDuration == 4000

\* generateShareText(platform) of the countdown revision.
GenerateShareTextDecorated(p, platform) ==
    LET shareEmoji   == Default(p.shareEmoji, Str(""))
        funnyNote    == Default(p.funnyNote, Str(""))
        callToAction == Default(p.callToAction, Str(DefaultCallToAction))
        hashtag      == Default(p.hashtag, Str(DefaultHashtag))
        emoji   == IF Truthy(shareEmoji) THEN JsToString(shareEmoji) \o " " ELSE ""
        intro   == "Tried Vana's " \o JsToString(p.appName) \o ", look what I got:\n\n"
        content == emoji \o JsToString(p.shareContent)
        note    == IF Truthy(funnyNote) THEN "\n\n" \o JsToString(funnyNote) ELSE ""
        cta     == "\n\n" \o JsToString(callToAction)
        tag     == "\n" \o JsToString(hashtag)
        needsFullUrl == platform = "instagram" \/ platform = "facebook"
        ctaWithUrl   == IF needsFullUrl
                        THEN Replace(cta, "app.vana.com", "https://app.vana.com")
                        ELSE cta
    IN  intro \o content \o note \o ctaWithUrl \o tag

\* Mutant of GenerateShareTextSuffix: the suffix goes on a line of its own.
GenerateShareTextSuffixLine(p) ==
    JsToString(p.shareContent) \o "\n"
        \o JsToString(Default(p.suffix, Str(DefaultSuffix)))

\* generateShareText() of the suffix revision.
GenerateShareTextSuffix(p) ==
    JsToString(p.shareContent) \o JsToString(Default(p.suffix, Str(DefaultSuffix)))

\* The text a button of the last render copies.
ShareText(v, p, platform) ==
    IF v = "countdown" THEN GenerateShareTextDecorated(p, platform)
    ELSE GenerateShareTextSuffix(p)

\* config.getUrl(text) of SHARE_BUTTONS; window.location.origin is the page's.
GetUrl(platform, text) ==
    CASE platform = "twitter" ->
            "https://twitter.com/intent/tweet?text=" \o EncodeURIComponent(text)
      [] platform = "facebook" ->
            "https://www.facebook.com/sharer/sharer.php?u="
                \o EncodeURIComponent(PageOrigin) \o "&quote=" \o EncodeURIComponent(text)
      [] platform = "linkedin" ->
            "https://www.linkedin.com/feed/?shareActive=true&text="
                \o EncodeURIComponent(text)
      [] platform = "instagram" -> "https://www.instagram.com/"

(***************************************************************************)
(* Clicks and timers.                                                        *)
(***************************************************************************)
\* Number of clicks on share buttons in one run.
MaxClicks == 2

\* The period of the countdown interval, the seconds of the countdown, and
\* the delay reported to onCopySuccess.
TickMs    == 100
TotalTime == 3
DelayMs   == 3000

\* Something a step did: a call of the clipboard, of a callback prop (fn is
\* its identity), of setInternalToast, of a timer function or of window.open.
Effect(i, kind, fn, args) == [inst |-> i, kind |-> kind, fn |-> fn, args |-> args]

\* cb?.(args)
OptionalCall(i, cb, fn, args) ==
    IF fn = "undefined" THEN <<>> ELSE <<Effect(i, cb, fn, args)>>

\* Mutant of CountdownMessage: the seconds are counted from zero.
CountdownMessageFromZero(platform, countdown, progress) ==
    [title |-> "Copied to clipboard!",
     description |-> "Opening " \o platform \o " in " \o NatToString(countdown - 1)
                         \o "... Paste your message there.",
     progress |-> progress, duration |-> "Infinity"]

\* The toast of the countdown revision.
CountdownMessage(platform, countdown, progress) ==
    [title |-> "Copied to clipboard!",
     description |-> "Opening " \o platform \o " in " \o NatToString(countdown)
                         \o "... Paste your message there.",
     progress |-> progress, duration |-> "Infinity"]

\* The toast of the suffix revision.
InstructionsMessage(platform, toastDuration) ==
    [title |-> "Copied to clipboard!",
     description |-> "Now go to " \o platform \o " and paste your message to share.",
     duration |-> toastDuration]

\* A live timer: its id, the instance whose click created it, its kind, the
\* time until it is due, and the variables its callback closes over.
Timer(id, i, kind, remaining, platform, url, progress, countdown) ==
    [id |-> id, inst |-> i, kind |-> kind, remaining |-> remaining,
     platform |-> platform, url |-> url, progress |-> progress,
     countdown |-> countdown]

\* Mutant of ClearTimer: the timer is left running.
ClearTimerNone(ts, id) == ts

\* Mutant of ClearTimer: the named timer is the one that is kept.
ClearTimerOthers(ts, id) == {t \in ts : t.id = id}

\* Mutant of ClearTimer: every timer of the page is cleared.
ClearTimerAll(ts, id) == {}

\* clearInterval(id) / clearTimeout(id)
ClearTimer(ts, id) == {t \in ts : t.id # id}

\* Mutant of CopyAndOpenWithCountdown: the interval of an earlier click is
\* not cleared.
CopyAndOpenNoCancel(i, p, text, platform, url, ts, ref, id) ==
    LET lower == Str(ToLowerCase(platform))
        message == CountdownMessage(platform, TotalTime, DblOf(100))
    IN  [effects |->
            <<Effect(i, "writeText", "", <<Str(text)>>)>>
            \o OptionalCall(i, "onShare", p.onShare, <<lower>>)
            \o OptionalCall(i, "onCopySuccess", p.onCopySuccess,
                            <<lower, Str(text), Num(DelayMs)>>)
            \o <<Effect(i, "setInternalToast", "", <<message>>),
                 Effect(i, "setInterval", "", <<Num(id)>>)>>,
         toast |-> message,
         timers |-> ts \cup {Timer(id, i, "interval", TickMs, platform, url,
                                   DblOf(100), TotalTime)},
         ref |-> id,
         nextId |-> id + 1,
         shows |-> TRUE,
         duration |-> DelayMs]

\* copyAndOpenWithCountdown(text, platform, url) of instance i rendered with
\* props p, with the live timers ts, toastTimerRef.current = ref (0 when
\* undefined) and id the id setInterval returns.
CopyAndOpenWithCountdown(i, p, text, platform, url, ts, ref, id) ==
    LET lower == Str(ToLowerCase(platform))
        message == CountdownMessage(platform, TotalTime, DblOf(100))
    IN  [effects |->
            <<Effect(i, "writeText", "", <<Str(text)>>)>>
            \o OptionalCall(i, "onShare", p.onShare, <<lower>>)
            \o OptionalCall(i, "onCopySuccess", p.onCopySuccess,
                            <<lower, Str(text), Num(DelayMs)>>)
            \o <<Effect(i, "setInternalToast", "", <<message>>),
                 Effect(i, "setInterval", "", <<Num(id)>>)>>
            \o (IF ref # 0 THEN <<Effect(i, "clearInterval", "", <<Num(ref)>>)>>
                ELSE <<>>),
         toast |-> message,
         timers |-> ClearTimer(ts, ref)
                        \cup {Timer(id, i, "interval", TickMs, platform, url,
                                    DblOf(100), TotalTime)},
         ref |-> id,
         nextId |-> id + 1,
         shows |-> TRUE,
         duration |-> DelayMs]

\* Mutant of CopyAndShowInstructions: the text is written once more when a
\* toast is still shown.
CopyAndShowInstructionsTwice(i, p, text, platform, ts, ref, id, toast) ==
    LET lower == Str(ToLowerCase(platform))
        hideToast == Default(p.hideToast, Bool(FALSE))
        toastDuration == Default(p.toastDuration, Num(DefaultToastDuration))
        message == InstructionsMessage(platform, toastDuration)
        copied == <<Effect(i, "writeText", "", <<Str(text)>>)>>
                  \o (IF toast # Null
                      THEN <<Effect(i, "writeText", "", <<Str(text)>>)>> ELSE <<>>)
                  \o OptionalCall(i, "onShare", p.onShare, <<lower>>)
                  \o OptionalCall(i, "onCopySuccess", p.onCopySuccess,
                                  <<lower, Str(text)>>)
    IN  IF ~Truthy(hideToast)
        THEN [effects |->
                 copied
                 \o <<Effect(i, "setInternalToast", "", <<message>>)>>
                 \o (IF ref # 0 THEN <<Effect(i, "clearTimeout", "", <<Num(ref)>>)>>
                     ELSE <<>>)
                 \o <<Effect(i, "setTimeout", "", <<Num(id), toastDuration>>)>>,
              toast |-> message,
              timers |-> ClearTimer(ts, ref)
                             \cup {Timer(id, i, "timeout", toastDuration.n, platform,
                                         "", <<0, 0>>, 0)},
              ref |-> id, nextId |-> id + 1,
              shows |-> TRUE, duration |-> toastDuration.n]
        ELSE [effects |-> copied, toast |-> toast, timers |-> ts, ref |-> ref,
              nextId |-> id, shows |-> FALSE, duration |-> 0]

\* copyAndShowInstructions(text, platform) of instance i rendered with props
\* p; toast is internalToast.message.
CopyAndShowInstructions(i, p, text, platform, ts, ref, id, toast) ==
    LET lower == Str(ToLowerCase(platform))
        hideToast == Default(p.hideToast, Bool(FALSE))
        toastDuration == Default(p.toastDuration, Num(DefaultToastDuration))
        message == InstructionsMessage(platform, toastDuration)
        copied == <<Effect(i, "writeText", "", <<Str(text)>>)>>
                  \o OptionalCall(i, "onShare", p.onShare, <<lower>>)
                  \o OptionalCall(i, "onCopySuccess", p.onCopySuccess,
                                  <<lower, Str(text)>>)
    IN  IF ~Truthy(hideToast)
        THEN [effects |->
                 copied
                 \o <<Effect(i, "setInternalToast", "", <<message>>)>>
                 \o (IF ref # 0 THEN <<Effect(i, "clearTimeout", "", <<Num(ref)>>)>>
                     ELSE <<>>)
                 \o <<Effect(i, "setTimeout", "", <<Num(id), toastDuration>>)>>,
              toast |-> message,
              timers |-> ClearTimer(ts, ref)
                             \cup {Timer(id, i, "timeout", toastDuration.n, platform,
                                         "", <<0, 0>>, 0)},
              ref |-> id, nextId |-> id + 1,
              shows |-> TRUE, duration |-> toastDuration.n]
        ELSE [effects |-> copied, toast |-> toast, timers |-> ts, ref |-> ref,
              nextId |-> id, shows |-> FALSE, duration |-> 0]

\* What a render with props p computes for the button of each platform: the
\* text, the url and the platform name its handleClick closes over.
RenderedButtons ==
    [v \in {"countdown", "suffix"}, p \in SharePropsChoices, platform \in Platforms |->
        LET text == ShareText(v, p, platform) IN
        [text |-> text, url |-> GetUrl(platform, text), name |-> Capitalize(platform)]]

\* Mutant of HandleClick: the text and the url are those of a render with
\* the props of the first test render, whatever the current props are.
HandleClickFirstRender(v, i, p, platform, ts, ref, id, toast) ==
    LET button == RenderedButtons[v, BaseShareProps, platform] IN
    IF v = "countdown"
    THEN CopyAndOpenWithCountdown(i, p, button.text, button.name, button.url,
                                  ts, ref, id)
    ELSE CopyAndShowInstructions(i, p, button.text, button.name, ts, ref, id, toast)

\* handleClick of the button of `platform`, as the last render of instance i
\* with props p built it.
HandleClick(v, i, p, platform, ts, ref, id, toast) ==
    LET button == RenderedButtons[v, p, platform] IN
    IF v = "countdown"
    THEN CopyAndOpenWithCountdown(i, p, button.text, button.name, button.url,
                                  ts, ref, id)
    ELSE CopyAndShowInstructions(i, p, button.text, button.name, ts, ref, id, toast)

\* Mutant of TimeoutCallback: the timeout also opens the platform.
TimeoutCallbackOpens(t, isMounted) ==
    [effects |-> <<Effect(t.inst, "setInternalToast", "", <<Null>>),
                   Effect(t.inst, "window.open", "",
                          <<Str(GetUrl(ToLowerCase(t.platform), "")), Str("_blank"),
                            Str("noopener,noreferrer")>>)>>,
     after |-> <<>>, flushed |-> FALSE,
     toast |-> Null, sets |-> isMounted, rearmed |-> {}]

\* The callback of the toast timeout of the suffix revision.
TimeoutCallback(t, isMounted) ==
    [effects |-> <<Effect(t.inst, "setInternalToast", "", <<Null>>)>>,
     after |-> <<>>, flushed |-> FALSE,
     toast |-> Null, sets |-> isMounted, rearmed |-> {}]

\* 100 / (totalTime * 10) and 100 / totalTime
ProgressStep   == FlDiv(100, TotalTime * 10)
ProgressSecond == FlDiv(100, TotalTime)

\* Mutant of IntervalCallback: at zero the window is opened first, and the
\* toast is cleared and the interval stopped after it.
IntervalCallbackOpenFirst(t, isMounted) ==
    LET progress == MaxZeroMinus(t.progress, ProgressStep)
        currentCountdown == CeilQuot(progress, ProgressSecond)
        countdown == IF currentCountdown # t.countdown /\ currentCountdown > 0
                     THEN currentCountdown ELSE t.countdown
        message == CountdownMessage(t.platform, countdown, progress)
    IN  IF DblLess(<<0, 0>>, progress)
        THEN [effects |-> <<Effect(t.inst, "setInternalToast", "", <<message>>)>>,
              after |-> <<>>, flushed |-> FALSE,
              toast |-> message, sets |-> isMounted,
              rearmed |-> {[t EXCEPT !.remaining = TickMs, !.progress = progress,
                                     !.countdown = countdown]}]
        ELSE [effects |-> <<Effect(t.inst, "window.open", "",
                                   <<Str(t.url), Str("_blank"),
                                     Str("noopener,noreferrer")>>),
                            Effect(t.inst, "setInternalToast", "", <<Null>>)>>,
              after |-> <<Effect(t.inst, "clearInterval", "", <<Num(t.id)>>)>>,
              flushed |-> isMounted,
              toast |-> Null, sets |-> isMounted, rearmed |-> {}]

\* The callback of the countdown interval, with the values of progress and
\* countdown in t.  The last tick sets the toast inside flushSync: `effects`
\* are the calls up to the end of flushSync, `after` those that follow it,
\* and `flushed` says that React rendered inside flushSync, which it does
\* when the component whose state is set is mounted.
IntervalCallback(t, isMounted) ==
    LET progress == MaxZeroMinus(t.progress, ProgressStep)
        currentCountdown == CeilQuot(progress, ProgressSecond)
        countdown == IF currentCountdown # t.countdown /\ currentCountdown > 0
                     THEN currentCountdown ELSE t.countdown
        message == CountdownMessage(t.platform, countdown, progress)
    IN  IF DblLess(<<0, 0>>, progress)
        THEN [effects |-> <<Effect(t.inst, "setInternalToast", "", <<message>>)>>,
              after |-> <<>>, flushed |-> FALSE,
              toast |-> message, sets |-> isMounted,
              rearmed |-> {[t EXCEPT !.remaining = TickMs, !.progress = progress,
                                     !.countdown = countdown]}]
        ELSE [effects |-> <<Effect(t.inst, "clearInterval", "", <<Num(t.id)>>),
                            Effect(t.inst, "setInternalToast", "", <<Null>>)>>,
              after |-> <<Effect(t.inst, "window.open", "",
                                 <<Str(t.url), Str("_blank"),
                                   Str("noopener,noreferrer")>>)>>,
              flushed |-> isMounted,
              toast |-> Null, sets |-> isMounted, rearmed |-> {}]

\* The callback of timer t.
TimerCallback(t, isMounted) ==
    IF t.kind = "interval" THEN IntervalCallback(t, isMounted)
    ELSE TimeoutCallback(t, isMounted)

\* The window.open calls among effects es.
Opens(es) == SelectSeq(es, LAMBDA e : e.kind = "window.open")
Writes(es) == SelectSeq(es, LAMBDA e : e.kind = "writeText")

\* Mutant of ToastRendered: hideToast is not looked at.
ToastRenderedAnyway(v, isMounted, p, toast) == isMounted /\ toast # Null

\* The internal toast is rendered: the instance is mounted, has a message
\* and, in the suffix revision, hideToast is not set.
ToastRendered(v, isMounted, p, toast) ==
    /\ isMounted
    /\ v = "suffix" => ~Truthy(Default(p.hideToast, Bool(FALSE)))
    /\ toast # Null

(***************************************************************************)
(* Actions of the share widget.                                              *)
(***************************************************************************)
\* What is remembered of the last click of an instance that showed a toast:
\* the time since, the duration of its toast or countdown, whether it
\* replaced a live timer, and the platform and the text of that click.
NoShown ==
    [clicked |-> FALSE, since |-> 0, duration |-> 0, replaced |-> FALSE,
     platform |-> "", text |-> ""]

ShOp(op, i, platform) == [op |-> op, inst |-> i, platform |-> platform]

\* The cleanup of the unmount effect: the timer toastTimerRef.current names
\* is cleared.
UnmountCleanup(ts, ref) == IF ref # 0 THEN ClearTimer(ts, ref) ELSE ts

\* The call the cleanup makes: clearInterval in the countdown revision and
\* clearTimeout in the suffix revision, whenever the ref is set, also when
\* the timer it names has ended.
UnmountCleanupCalls(v, i, ref) ==
    IF ref # 0
    THEN <<Effect(i, IF v = "countdown" THEN "clearInterval" ELSE "clearTimeout",
                  "", <<Num(ref)>>)>>
    ELSE <<>>

\* The cleanup of the unmounted instance pend (0 when there is none) that
\* has not run yet runs: the timers, the calls and the refs after it.
FlushedTimers(ts, pend, refs) ==
    IF pend = 0 THEN ts ELSE UnmountCleanup(ts, refs[pend])
FlushedCalls(v, pend, refs) ==
    IF pend = 0 THEN <<>> ELSE UnmountCleanupCalls(v, pend, refs[pend])
FlushedRefs(pend, refs) ==
    IF pend = 0 THEN refs ELSE [refs EXCEPT ![pend] = 0]

\* What a step of a share widget does to the upload widgets of the page.
\* React keeps the passive effects of the last commit of the page, of
\* whatever component, and runs them before the next render: a render of a
\* share widget runs the pending effect of an upload widget.  Otherwise the
\* upload widgets are left alone; the step dispatched no message event.
UploadEffectsFlushed(rendered) ==
    IF rendered /\ pending # NoPending THEN RunEffects
    ELSE /\ ClearEffects(iframeHeight)
         /\ lastOp' = [op |-> "share", inst |-> 0]
         /\ UNCHANGED <<mounted, props, listeners, iframeHeight, stats, nMsgs,
                        pending>>

\* First render of share widget instance i with props p.  A render starts
\* by running the cleanup still pending.
ShMount(i, p) ==
    /\ ~shMounted[i]
    /\ shProps' = [shProps EXCEPT ![i] = p]
    /\ shMounted' = [shMounted EXCEPT ![i] = TRUE]
    /\ timers' = FlushedTimers(timers, shPending, toastTimerRef)
    /\ effects' = FlushedCalls(variant, shPending, toastTimerRef)
    /\ toastTimerRef' = FlushedRefs(shPending, toastTimerRef)
    /\ shPending' = 0
    /\ shLastOp' = ShOp("mount", i, "")
    /\ shown' = [shown EXCEPT ![i] = NoShown]
    /\ UNCHANGED <<variant, page, internalToast, nextTimerId, nClicks, nWrites, nOpens>>
    /\ UploadEffectsFlushed(TRUE)

\* Re-render of instance i with props p; the buttons get the handlers of
\* this render.  No effect of the component depends on the props.
ShRerender(i, p) ==
    /\ shMounted[i]
    /\ shProps' = [shProps EXCEPT ![i] = p]
    /\ timers' = FlushedTimers(timers, shPending, toastTimerRef)
    /\ effects' = FlushedCalls(variant, shPending, toastTimerRef)
    /\ toastTimerRef' = FlushedRefs(shPending, toastTimerRef)
    /\ shPending' = 0
    /\ shLastOp' = ShOp("rerender", i, "")
    /\ UNCHANGED <<variant, page, shMounted, internalToast, nextTimerId, nClicks,
                   nWrites, nOpens, shown>>
    /\ UploadEffectsFlushed(TRUE)

\* Unmount of instance i: the component and its state are gone and the
\* cleanup of its effect is scheduled.  It runs within the same step when
\* the unmount is synchronous (as under act() in the tests) and in a later
\* step otherwise; until then the timer of the instance stays live.
ShUnmount(i) ==
    /\ shMounted[i]
    /\ shMounted' = [shMounted EXCEPT ![i] = FALSE]
    /\ internalToast' = [internalToast EXCEPT ![i] = Null]
    /\ \E sync \in BOOLEAN :
         LET ts   == FlushedTimers(timers, shPending, toastTimerRef)
             cs   == FlushedCalls(variant, shPending, toastTimerRef)
             refs == FlushedRefs(shPending, toastTimerRef)
         IN  IF sync
             THEN /\ timers' = UnmountCleanup(ts, refs[i])
                  /\ effects' = cs \o UnmountCleanupCalls(variant, i, refs[i])
                  /\ toastTimerRef' = [refs EXCEPT ![i] = 0]
                  /\ shPending' = 0
             ELSE /\ timers' = ts
                  /\ effects' = cs
                  /\ toastTimerRef' = refs
                  /\ shPending' = i
    /\ shLastOp' = ShOp("unmount", i, "")
    /\ UNCHANGED <<variant, page, shProps, nextTimerId, nClicks, nWrites, nOpens, shown>>
    /\ UploadEffectsFlushed(TRUE)

\* The cleanup an unmount scheduled runs.
ShCleanupRuns ==
    /\ shPending # 0
    /\ timers' = FlushedTimers(timers, shPending, toastTimerRef)
    /\ effects' = FlushedCalls(variant, shPending, toastTimerRef)
    /\ toastTimerRef' = FlushedRefs(shPending, toastTimerRef)
    /\ shPending' = 0
    /\ shLastOp' = ShOp("cleanup", shPending, "")
    /\ UNCHANGED <<variant, page, shMounted, shProps, internalToast, nextTimerId,
                   nClicks, nWrites, nOpens, shown>>

ShRunCleanup == ShCleanupRuns /\ UploadEffectsFlushed(FALSE)

\* The sum of f over the share widget instances.
RECURSIVE SumOver(_, _)
SumOver(f, S) ==
    IF S = {} THEN 0
    ELSE LET x == CHOOSE y \in S : TRUE IN f[x] + SumOver(f, S \ {x})

\* The ways the promise navigator.clipboard.writeText returns is settled.
WriteOutcomes == {"fulfilled", "rejected"}

\* Mutant of PromiseSettled: a rejected write is tried once more.
PromiseSettledRetry(out, outcome) ==
    LET es == out.effects
        marked == [k \in DOMAIN es |->
                      IF es[k].kind = "writeText" THEN [es[k] EXCEPT !.fn = outcome]
                      ELSE es[k]]
    IN  [out EXCEPT !.effects =
            IF outcome = "rejected" THEN marked \o Writes(marked) ELSE marked]

\* The promise of the click's writeText call is settled with `outcome` after
\* the handler has returned.  The handler neither awaits the promise nor
\* attaches a reaction to it, so no code of the component runs then: what
\* the click did stays as it is, and the outcome is noted on the call.
PromiseSettled(out, outcome) ==
    LET es == out.effects IN
    [out EXCEPT !.effects =
        [k \in DOMAIN es |->
            IF es[k].kind = "writeText" THEN [es[k] EXCEPT !.fn = outcome]
            ELSE es[k]]]

\* A click on the share button of `platform` of instance i; the clipboard
\* write it issues succeeds or fails.  When the handler set the toast the
\* component is rendered again, and the render starts by running the
\* cleanup still pending.
Click(i, platform) ==
    /\ shMounted[i]
    /\ SumOver(nClicks, ShInst) < MaxClicks
    /\ \E outcome \in WriteOutcomes :
       \E out \in {PromiseSettled(
                      HandleClick(variant, i, shProps[i], platform, timers,
                                  toastTimerRef[i], nextTimerId, internalToast[i]),
                      outcome)} :
           /\ internalToast' = [internalToast EXCEPT ![i] = out.toast]
           /\ nextTimerId' = out.nextId
           /\ LET refs == [toastTimerRef EXCEPT ![i] = out.ref]
                  pend == IF out.shows THEN shPending ELSE 0
              IN  /\ effects' = out.effects \o FlushedCalls(variant, pend, refs)
                  /\ timers' = FlushedTimers(out.timers, pend, refs)
                  /\ toastTimerRef' = FlushedRefs(pend, refs)
                  /\ shPending' = IF out.shows THEN 0 ELSE shPending
           /\ nWrites' = [nWrites EXCEPT ![i] = @ + Len(Writes(out.effects))]
           /\ shown' = IF out.shows
                       THEN [shown EXCEPT ![i] =
                               [clicked |-> TRUE, since |-> 0,
                                duration |-> out.duration,
                                replaced |-> \E t \in timers : t.id = toastTimerRef[i],
                                platform |-> platform,
                                text |-> Writes(out.effects)[1].args[1].s]]
                       ELSE shown
           /\ UploadEffectsFlushed(out.shows)
    /\ nClicks' = [nClicks EXCEPT ![i] = @ + 1]
    /\ shLastOp' = ShOp("click", i, platform)
    /\ UNCHANGED <<variant, page, shMounted, shProps, nOpens>>

\* A due timer fires: its callback runs.  setInternalToast of an unmounted
\* component changes no state.  The render inside flushSync starts by
\* running the passive effects that are pending, so the cleanup of a removed
\* instance runs inside the last tick of a mounted one, before what follows
\* flushSync.
FireTimer ==
    \E t \in timers :
        /\ t.remaining = 0
        /\ \E out \in {TimerCallback(t, shMounted[t.inst])} :
           LET pend == IF out.flushed THEN shPending ELSE 0
               all  == out.effects \o out.after
           IN
           /\ effects' = out.effects \o FlushedCalls(variant, pend, toastTimerRef)
                                     \o out.after
           /\ internalToast' = IF out.sets
                               THEN [internalToast EXCEPT ![t.inst] = out.toast]
                               ELSE internalToast
           /\ timers' = FlushedTimers((timers \ {t}) \cup out.rearmed, pend,
                                      toastTimerRef)
           /\ toastTimerRef' = FlushedRefs(pend, toastTimerRef)
           /\ shPending' = IF out.flushed THEN 0 ELSE shPending
           /\ nOpens' = [nOpens EXCEPT ![t.inst] = @ + Len(Opens(all))]
           /\ UploadEffectsFlushed(out.flushed)
        /\ shLastOp' = ShOp("timer", t.inst, ToLowerCase(t.platform))
        /\ UNCHANGED <<variant, page, shMounted, shProps, nextTimerId,
                       nClicks, nWrites, shown>>

Min(S) == CHOOSE x \in S : \A y \in S : x <= y

\* The longest time the clock advances in one step.
Second == 10 * TickMs

\* The time since the last click is followed up to this value.
SinceCap == DefaultToastDuration + Second

\* Time passes until the next timer is due, at most one second.
AdvanceTime ==
    /\ \A t \in timers : t.remaining > 0
    /\ LET dt == Min({Second} \cup {t.remaining : t \in timers}) IN
       /\ timers' = {[t EXCEPT !.remaining = @ - dt] : t \in timers}
       /\ shown' = [i \in ShInst |->
                       IF shown[i].clicked
                       THEN [shown[i] EXCEPT !.since = Min({@ + dt, SinceCap})]
                       ELSE shown[i]]
    /\ effects' = <<>>
    /\ shLastOp' = ShOp("advance", 0, "")
    /\ UNCHANGED <<variant, page, shMounted, shProps, internalToast, toastTimerRef,
                   nextTimerId, nClicks, nWrites, nOpens, shPending>>
    /\ UploadEffectsFlushed(FALSE)

\* The page before any share widget is rendered.
ShareIdle ==
    /\ shMounted = [i \in ShInst |-> FALSE]
    /\ shProps = [i \in ShInst |-> BaseShareProps]
    /\ internalToast = [i \in ShInst |-> Null]
    /\ toastTimerRef = [i \in ShInst |-> 0]
    /\ timers = {}
    /\ nextTimerId = 1
    /\ effects = <<>>
    /\ shLastOp = ShOp("init", 0, "")
    /\ shPending = 0
    /\ nClicks = [i \in ShInst |-> 0]
    /\ nWrites = [i \in ShInst |-> 0]
    /\ nOpens = [i \in ShInst |-> 0]
    /\ shown = [i \in ShInst |-> NoShown]

(***************************************************************************)
(* Specifications.                                                           *)
(***************************************************************************)
Init ==
    /\ mounted = [i \in Inst |-> FALSE]
    /\ props = [i \in Inst |-> BaseProps]
    /\ listeners = <<>>
    /\ iframeHeight = [i \in Inst |-> ""]
    /\ lastEvent = NoEvent
    /\ calls = <<>>
    /\ posted = <<>>
    /\ threw = {}
    /\ prevHeight = [i \in Inst |-> ""]
    /\ stats = [i \in Inst |-> NoStats]
    /\ lastOp = [op |-> "init", inst |-> 0]
    /\ nMsgs = 0
    /\ pending = NoPending

allVars == <<vars, shareVars>>

\* The widgets of a page with upload widgets us and share widgets ss.
Page(us, ss) == [uploads |-> us, shares |-> ss]

\* One upload widget instance is on the page.
OneUpload == {1}

\* The upload widget on a page that renders no share widget.
UploadInit == Init /\ variant = "suffix" /\ ShareIdle /\ page = Page(OneUpload, {})

Next ==
    \/ \E i \in OneUpload : Mount(i) /\ UNCHANGED shareVars
    \/ \E i \in OneUpload : Rerender(i) /\ UNCHANGED shareVars
    \/ \E i \in OneUpload : Unmount(i) /\ UNCHANGED shareVars
    \/ RunEffects /\ UNCHANGED shareVars
    \/ Dispatch /\ UNCHANGED shareVars

Spec == UploadInit /\ [][Next]_allVars

\* The upload widget with messages that name the window that sent them.
\* The props the two widgets of this page are rendered with: those of the
\* tests' first render and those with every value changed.
WindowProps == {p \in PropsChoices : p = BaseProps \/ p.appId = "app-2"}

WindowNext ==
    \/ \E i \in Inst : Mount(i) /\ props'[i] \in WindowProps /\ UNCHANGED shareVars
    \/ \E i \in Inst : Rerender(i) /\ props'[i] \in WindowProps /\ UNCHANGED shareVars
    \/ \E i \in Inst : Unmount(i) /\ UNCHANGED shareVars
    \/ RunEffects /\ UNCHANGED shareVars
    \/ DispatchFrom /\ UNCHANGED shareVars

WindowInit == Init /\ variant = "suffix" /\ ShareIdle /\ page = Page(Inst, {})

WindowSpec == WindowInit /\ [][WindowNext]_allVars

\* The share widget, in either revision, on a page that renders no upload
\* widget.
\* One share widget instance is on the page.
OneWidget == {1}

ShareInit ==
    /\ Init /\ variant \in {"countdown", "suffix"} /\ ShareIdle
    /\ page = Page({}, OneWidget)

ShareNext ==
    \/ \E i \in OneWidget, p \in SharePropsChoices : ShMount(i, p)
    \/ \E i \in OneWidget, p \in SharePropsChoices : ShRerender(i, p)
    \/ \E i \in OneWidget : ShUnmount(i)
    \/ ShRunCleanup
    \/ \E i \in OneWidget, platform \in Platforms : Click(i, platform)
    \/ FireTimer
    \/ AdvanceTime

ShareSpec == ShareInit /\ [][ShareNext]_allVars

\* A page with several widgets.  The application renders two upload
\* widgets, two share widgets, or one of each; it re-renders and removes
\* them, the window receives messages, the user clicks and time passes.
Pages == { Page(Inst, {}), Page({}, ShInst), Page({1}, {1}) }

\* The messages the window of such a page receives at most.
MaxPageMsgs == 1

\* What a step of an upload widget does to the share widgets of the page:
\* nothing but that a render runs the cleanup of a share widget that is
\* still pending.
ShareUntouched ==
    /\ effects' = <<>>
    /\ shLastOp' = ShOp("upload", 0, "")
    /\ UNCHANGED <<variant, page, shMounted, shProps, internalToast, toastTimerRef,
                   timers, nextTimerId, nClicks, nWrites, nOpens, shown, shPending>>

ShareEffectsFlushed ==
    IF shPending # 0 THEN ShCleanupRuns ELSE ShareUntouched

\* The page renders each share widget instance with props of its own, and
\* the user clicks the buttons of two platforms.
PageShareProps ==
    [i \in ShInst |->
        IF i = 1 THEN [BaseShareProps EXCEPT !.appName = Str("Test App")]
        ELSE CHOOSE p \in SharePropsChoices : p.toastDuration = Num(2000)]
PageButtons == {"twitter", "instagram"}

PageNext ==
    \/ \E i \in page.uploads : Mount(i) /\ props'[i] \in WindowProps
                               /\ ShareEffectsFlushed
    \/ \E i \in page.uploads : Rerender(i) /\ props'[i] \in WindowProps
                               /\ ShareEffectsFlushed
    \/ \E i \in page.uploads : Unmount(i) /\ ShareEffectsFlushed
    \/ RunEffects /\ ShareUntouched
    \/ page.uploads # {} /\ nMsgs < MaxPageMsgs /\ Dispatch
                          /\ lastEvent'.data \in SentData /\ ShareUntouched
    \/ \E i \in page.shares : ShMount(i, PageShareProps[i])
    \/ \E i \in page.shares : ShRerender(i, PageShareProps[i])
    \/ \E i \in page.shares : ShUnmount(i)
    \/ ShRunCleanup
    \/ \E i \in page.shares, platform \in PageButtons : Click(i, platform)
    \/ FireTimer
    \/ AdvanceTime

PageInit ==
    /\ Init /\ variant \in {"countdown", "suffix"} /\ ShareIdle
    /\ page \in Pages

PageSpec == PageInit /\ [][PageNext]_allVars

(***************************************************************************)
(* Properties.                                                              *)
(***************************************************************************)
\* What instance i did while handling lastEvent.
CallsOf(i) == SelectSeq(calls, LAMBDA c : c.inst = i)
PostedOf(i) == SelectSeq(posted, LAMBDA m : m.inst = i)
NoEffectOn(i) ==
    /\ CallsOf(i) = <<>>
    /\ PostedOf(i) = <<>>
    /\ iframeHeight[i] = prevHeight[i]

\* The last step dispatched an event.
Dispatched == lastEvent # NoEvent

\* The listeners instance i has registered on the window.
ListenersOf(i) == SelectSeq(listeners, LAMBDA l : l.inst = i)

\* Instance i has a listener registered, and the values that listener is
\* bound to: those of the render whose effect registered it.
Registered(i) == ListenersOf(i) # <<>>
Bound(i) == ListenersOf(i)[1].fn

\* No passive effect of instance i is waiting to run.
EffectsRun(i) == pending.inst # i

\* The last step dispatched an event that instance i, mounted, received
\* from the origin it is configured with: the instance has its listener
\* registered and the event comes from the iframeOrigin the listener is
\* bound to.
FromConfigured(i) ==
    /\ Dispatched
    /\ mounted[i]
    /\ Registered(i)
    /\ lastEvent.origin = Bound(i).iframeOrigin

\* The fields of the last event's data.
Field == lastEvent.data.f

\* C1: an event whose origin is not the iframeOrigin the listener of an
\* instance is configured with, whatever its data, makes the instance invoke
\* no callback, post nothing to its iframe and leave the iframe height as
\* it was.
C1_OriginFilter ==
    \A i \in Inst :
        (Dispatched /\ Registered(i) /\ lastEvent.origin # Bound(i).iframeOrigin)
            => NoEffectOn(i)

\* An auth message with a wallet address from a foreign origin was dispatched
\* to a mounted instance.
C1_Witness ==
    \E i \in Inst :
        /\ Dispatched /\ mounted[i] /\ Registered(i)
        /\ lastEvent.origin = MaliciousOrigin
        /\ IsTag(lastEvent, "auth") /\ Truthy(Field.walletAddress)

\* C2: a ready message from the configured origin makes the instance post
\* exactly one message to its iframe: the config message with the appId,
\* schemaId, prompt (as aiPrompt) and theme its listener is bound to and
\* the page's origin, addressed to the configured origin.  Once the effect
\* of the last render has run these are the values of the current props.
C2_ReadyConfig ==
    \A i \in Inst :
        /\ (FromConfigured(i) /\ IsTag(lastEvent, "ready")) =>
               PostedOf(i) =
                   << [inst |-> i,
                       message |-> [type |-> Str("config"),
                                    appId |-> Bound(i).appId,
                                    schemaId |-> Bound(i).schemaId,
                                    aiPrompt |-> Bound(i).prompt,
                                    embeddingOrigin |-> PageOrigin,
                                    theme |-> Bound(i).theme],
                       targetOrigin |-> Bound(i).iframeOrigin] >>
        /\ (mounted[i] /\ EffectsRun(i)) =>
               /\ Registered(i)
               /\ Bound(i) = Closure(props[i])

\* An instance rendered with a schemaId and a prompt handled a ready message.
C2_Witness ==
    \E i \in Inst :
        /\ FromConfigured(i) /\ IsTag(lastEvent, "ready")
        /\ props[i].schemaId = Num(123) /\ props[i].prompt = Str("Test prompt")
        /\ Len(PostedOf(i)) = 1

\* C3: after any sequence of mounts, re-renders and unmounts an instance
\* has at most one message listener registered, a mounted instance whose
\* effect has run has exactly one, and an unmounted instance has none.
C3_OneListener ==
    \A i \in Inst :
        /\ Len(ListenersOf(i)) <= 1
        /\ (mounted[i] /\ EffectsRun(i)) => Len(ListenersOf(i)) = 1
        /\ ~mounted[i] => Len(ListenersOf(i)) = 0

\* C4: an event dispatched while an instance is unmounted, also one from the
\* origin it was configured with, makes it invoke no callback, post nothing
\* and change no iframe height.
C4_UnmountedSilent ==
    \A i \in Inst : (Dispatched /\ ~mounted[i]) => NoEffectOn(i)

\* The callbacks instance i invoked while handling lastEvent, and whether it
\* forwarded a payload to its iframe.
CallbacksOf(i) == {CallsOf(i)[k].cb : k \in DOMAIN CallsOf(i)}
Relayed(i) == \E k \in DOMAIN PostedOf(i) : ~IsConfig(PostedOf(i)[k].message)

\* C5 as stated: an instance forwards a relayed payload or invokes onAuth,
\* onResult or onError only after it has answered a ready message with a
\* config message.
C5_StateMachine ==
    \A i \in Inst :
        (Dispatched /\ (Relayed(i) \/ CallbacksOf(i) \cap {"onAuth", "onResult", "onError"} # {}))
            => stats[i].config > 0

\* C5 as amended: the router keeps no protocol state.  A relay with a payload,
\* an auth with a wallet address, a complete with a result and an error
\* message from the configured origin each have their effect whenever they
\* are handled, also when the instance has received no ready message yet.
C5_Stateless ==
    \A i \in Inst :
        FromConfigured(i) =>
            /\ (IsTag(lastEvent, "relay") /\ Truthy(Field.data)) => Relayed(i)
            /\ (IsTag(lastEvent, "auth") /\ Truthy(Field.walletAddress))
                   => CallbacksOf(i) = {"onAuth"}
            /\ (IsTag(lastEvent, "complete") /\ Truthy(Field.result))
                   => CallbacksOf(i) = {"onResult"}
            /\ IsTag(lastEvent, "error") => CallbacksOf(i) = {"onError"}

\* An instance that has received no ready message invoked onAuth.
C5_Witness ==
    \E i \in Inst :
        /\ FromConfigured(i) /\ stats[i].ready = 0 /\ stats[i].config = 0
        /\ IsTag(lastEvent, "auth")
        /\ CallbacksOf(i) = {"onAuth"}

\* event.data that is null, undefined, not an object, or an object without a
\* type field.
Malformed(data) == data.kind # "object" \/ data.f.type = Undefined

\* C6: a malformed message from the configured origin is dropped silently:
\* the listener does not throw, invokes no callback, posts nothing and leaves
\* the iframe height as it was.
C6_MalformedDropped ==
    \A i \in Inst :
        (FromConfigured(i) /\ Malformed(lastEvent.data)) =>
            /\ i \notin threw
            /\ NoEffectOn(i)

\* C7: an error message from the configured origin invokes onError exactly
\* once and nothing else, with the message field when it is present (a
\* non-empty value), otherwise with the error field when that is present,
\* otherwise with "An error occurred".
C7_ErrorCallback ==
    \A i \in Inst :
        (FromConfigured(i) /\ IsTag(lastEvent, "error")) =>
            CallsOf(i) =
                << [inst |-> i, cb |-> "onError", fn |-> Bound(i).onError,
                    arg |-> IF Truthy(Field.message) THEN Field.message
                            ELSE IF Truthy(Field.error) THEN Field.error
                            ELSE Str("An error occurred")] >>

\* An error message carrying both fields was handled and onError got the
\* message field.
C7_Witness ==
    \E i \in Inst :
        /\ FromConfigured(i) /\ IsTag(lastEvent, "error")
        /\ Truthy(Field.message) /\ Truthy(Field.error)
        /\ Len(CallsOf(i)) = 1 /\ CallsOf(i)[1].arg = Field.message

\* C8: every complete message from the configured origin that carries a
\* result invokes onResult with it, whatever was delivered before, so the
\* invocations of an instance number the messages it received; a complete
\* message without a result invokes nothing.
C8_CompleteEveryTime ==
    \A i \in Inst :
        /\ mounted[i] => stats[i].onResult = stats[i].complete
        /\ (FromConfigured(i) /\ IsTag(lastEvent, "complete")) =>
               CallsOf(i) =
                   IF Truthy(Field.result)
                   THEN << [inst |-> i, cb |-> "onResult", fn |-> Bound(i).onResult,
                            arg |-> Field.result] >>
                   ELSE <<>>

\* An instance received a second complete message with a result and invoked
\* onResult a second time.
C8_Witness ==
    \E i \in Inst :
        /\ FromConfigured(i) /\ IsTag(lastEvent, "complete")
        /\ stats[i].complete = 2 /\ stats[i].onResult = 2
        /\ Len(CallsOf(i)) = 1

\* C9: a relay message from the configured origin with a payload posts that
\* payload itself, and nothing else, to the iframe; a relay message without
\* one posts nothing and does not throw.
C9_RelayVerbatim ==
    \A i \in Inst :
        (FromConfigured(i) /\ IsTag(lastEvent, "relay")) =>
            /\ i \notin threw
            /\ PostedOf(i) =
                   IF Truthy(Field.data)
                   THEN << [inst |-> i, message |-> Field.data,
                            targetOrigin |-> Bound(i).iframeOrigin] >>
                   ELSE <<>>

\* A relay message with an object payload was forwarded.
C9_Witness ==
    \E i \in Inst :
        /\ FromConfigured(i) /\ IsTag(lastEvent, "relay")
        /\ Field.data = Obj("relayData")
        /\ Len(PostedOf(i)) = 1

\* C10: an auth message from the configured origin with a walletAddress
\* invokes onAuth exactly once with that address and has no other effect; an
\* auth message without one has no effect and does not throw.
C10_AuthCallback ==
    \A i \in Inst :
        (FromConfigured(i) /\ IsTag(lastEvent, "auth")) =>
            /\ i \notin threw
            /\ PostedOf(i) = <<>>
            /\ iframeHeight[i] = prevHeight[i]
            /\ CallsOf(i) =
                   IF Truthy(Field.walletAddress)
                   THEN << [inst |-> i, cb |-> "onAuth", fn |-> Bound(i).onAuth,
                            arg |-> Field.walletAddress] >>
                   ELSE <<>>

\* An auth message with a wallet address was handled and onAuth invoked.
C10_Witness ==
    \E i \in Inst :
        /\ FromConfigured(i) /\ IsTag(lastEvent, "auth")
        /\ Field.walletAddress = Str("0x123456789")
        /\ Len(CallsOf(i)) = 1

\* C11: a resize message from the configured origin that carries a height
\* (a truthy one) sets the iframe height of the instance to that height
\* followed by "px", whatever the height was and whatever the instance has
\* received before; one that carries none leaves the height as it was.  So
\* after several resizes the height is that of the last one that carried one.
C11_ResizeHeight ==
    \A i \in Inst :
        (FromConfigured(i) /\ IsTag(lastEvent, "resize")) =>
            iframeHeight[i] =
                CASE Field.height = Num(500) -> "500px"
                  [] Field.height = Num(750) -> "750px"
                  [] OTHER                   -> prevHeight[i]

\* An instance whose height a resize had set to 500px handled a resize with
\* height 750.
C11_Witness ==
    \E i \in Inst :
        /\ FromConfigured(i) /\ IsTag(lastEvent, "resize")
        /\ Field.height = Num(750)
        /\ prevHeight[i] = "500px" /\ iframeHeight[i] = "750px"

\* An instance whose height a resize had set handled a resize without height.
C11_WitnessNoHeight ==
    \E i \in Inst :
        /\ FromConfigured(i) /\ IsTag(lastEvent, "resize")
        /\ Field.height = Undefined
        /\ prevHeight[i] = "750px" /\ iframeHeight[i] = "750px"

\* C12: a close message from the configured origin invokes onClose exactly
\* once, and nothing else, when the callback was supplied; without the
\* callback it invokes nothing and does not throw.  Either way nothing is
\* posted to the iframe and the iframe height stays as it was.
C12_CloseCallback ==
    \A i \in Inst :
        (FromConfigured(i) /\ IsTag(lastEvent, "close")) =>
            /\ i \notin threw
            /\ PostedOf(i) = <<>>
            /\ iframeHeight[i] = prevHeight[i]
            /\ CallsOf(i) =
                   IF Bound(i).onClose = "undefined" THEN <<>>
                   ELSE << [inst |-> i, cb |-> "onClose", fn |-> Bound(i).onClose,
                            arg |-> Undefined] >>

\* An instance rendered with onClose, and whose height a resize had set,
\* handled a close message and invoked the callback.
C12_Witness ==
    \E i \in Inst :
        /\ FromConfigured(i) /\ IsTag(lastEvent, "close")
        /\ prevHeight[i] = "500px"
        /\ Len(CallsOf(i)) = 1 /\ CallsOf(i)[1].fn = "onClose#1"

\* An instance rendered without onClose handled a close message.
C12_WitnessNoCallback ==
    \E i \in Inst :
        /\ FromConfigured(i) /\ IsTag(lastEvent, "close")
        /\ Bound(i).onClose = "undefined" /\ CallsOf(i) = <<>>

\* The type tags handleMessage has a case for.
KnownTags == {Str("ready"), Str("relay"), Str("auth"), Str("complete"),
              Str("error"), Str("resize"), Str("close")}

\* C13: a message from the configured origin whose data is an object, or a
\* primitive, with a type that is none of the seven known tags is ignored:
\* the listener does not throw, invokes no callback, posts nothing and
\* leaves the iframe height as it was.
C13_UnknownIgnored ==
    \A i \in Inst :
        (FromConfigured(i) /\ Destructurable(lastEvent.data)
            /\ Field.type \notin KnownTags) =>
                /\ i \notin threw
                /\ NoEffectOn(i)

\* A message with the tag "bogus" from the configured origin was dispatched
\* to an instance whose height a resize had set.
C13_Witness ==
    \E i \in Inst :
        /\ FromConfigured(i) /\ IsTag(lastEvent, "bogus")
        /\ prevHeight[i] = "500px"

\* C14: the listener a mounted instance has registered closes over the
\* appId, schemaId, prompt, theme, iframeOrigin and callbacks of its latest
\* render, also after a re-render changed them; so an event is handled with
\* these values only: it has an effect only when it comes from the latest
\* iframeOrigin, messages are posted to that origin, a config message
\* carries the latest props, and the callbacks invoked are the latest ones.
C14_Reregistration ==
    \A i \in Inst :
        (mounted[i] /\ Registered(i)) =>
            /\ ListenersOf(i) =
                   << [inst |-> i,
                       fn |-> [appId |-> props[i].appId, schemaId |-> props[i].schemaId,
                               prompt |-> props[i].prompt, theme |-> props[i].theme,
                               iframeOrigin |-> IframeOriginOf(props[i]),
                               onAuth |-> props[i].onAuth, onResult |-> props[i].onResult,
                               onError |-> props[i].onError, onClose |-> props[i].onClose]] >>
            /\ Dispatched =>
                   /\ lastEvent.origin # IframeOriginOf(props[i]) => NoEffectOn(i)
                   /\ \A k \in DOMAIN CallsOf(i) :
                          CallsOf(i)[k].fn \in {props[i].onAuth, props[i].onResult,
                                               props[i].onError, props[i].onClose}
                   /\ \A k \in DOMAIN PostedOf(i) :
                          /\ PostedOf(i)[k].targetOrigin = IframeOriginOf(props[i])
                          /\ IsConfig(PostedOf(i)[k].message) =>
                                 /\ PostedOf(i)[k].message.appId = props[i].appId
                                 /\ PostedOf(i)[k].message.schemaId = props[i].schemaId
                                 /\ PostedOf(i)[k].message.aiPrompt = props[i].prompt
                                 /\ PostedOf(i)[k].message.theme = props[i].theme

(***************************************************************************)
(* Properties of the share widget.                                           *)
(***************************************************************************)
\* The last step was a click on a share button of instance i.
Clicked(i) == shLastOp.op = "click" /\ shLastOp.inst = i

\* The texts the last step wrote to the clipboard.
WrittenTexts == {Writes(effects)[k].args[1].s : k \in DOMAIN Writes(effects)}

\* C15: after a share widget instance is unmounted no timer callback of it
\* runs: every callback that ran belonged to a mounted instance, so no
\* toast state is set and no window is opened for an unmounted one, which
\* has no toast.
C15_UnmountCancels ==
    /\ shLastOp.op = "timer" => shMounted[shLastOp.inst]
    /\ \A k \in DOMAIN effects :
           effects[k].kind \in {"setInternalToast", "window.open"}
               => shMounted[effects[k].inst]
    /\ \A i \in ShInst : ~shMounted[i] => internalToast[i] = Null

\* C16: every click calls navigator.clipboard.writeText exactly once, so an
\* instance has written as often as it was clicked, also when a click comes
\* while the toast or countdown of the previous one is pending.
C16_WritePerClick ==
    \A i \in ShInst :
        /\ nWrites[i] = nClicks[i]
        /\ Clicked(i) => Len(Writes(effects)) = 1

\* An instance was clicked a second time while the timer of its first click
\* was live, and has written twice.
C16_Witness ==
    \E i \in ShInst :
        /\ Clicked(i) /\ shown[i].replaced /\ shown[i].since = 0
        /\ nClicks[i] = 2 /\ nWrites[i] = 2

\* C17: the text written to the clipboard contains neither "undefined" nor
\* "null", whichever optional props are omitted.
C17_NoUndefinedText ==
    \A text \in WrittenTexts :
        ~Contains(text, "undefined") /\ ~Contains(text, "null")

\* C18: in the suffix revision the text a click copies is shareContent
\* followed by the suffix prop as given, by nothing when it is the empty
\* string and by the default suffix when it is omitted, whichever platform
\* was clicked.
C18_SuffixPolicy ==
    \A i \in ShInst :
        (variant = "suffix" /\ Clicked(i)) =>
            WrittenTexts =
                { shProps[i].shareContent.s \o
                    (IF shProps[i].suffix = Undefined
                     THEN "\n\nTry @ app.vana.com\n#datarevolution"
                     ELSE shProps[i].suffix.s) }

\* The linkedin button of an instance rendered with an empty suffix was
\* clicked and copied the content alone.
C18_Witness ==
    \E i \in ShInst :
        /\ variant = "suffix" /\ Clicked(i) /\ shLastOp.platform = "linkedin"
        /\ shProps[i].suffix = Str("")
        /\ WrittenTexts = {"New content"}

\* The button of an instance rendered without a suffix was clicked and
\* copied the content with the default suffix.
C18_WitnessDefault ==
    \E i \in ShInst :
        /\ variant = "suffix" /\ Clicked(i) /\ shLastOp.platform = "instagram"
        /\ shProps[i].suffix = Undefined
        /\ WrittenTexts = {"Test content\n\nTry @ app.vana.com\n#datarevolution"}

\* No timer of instance i is due: the callbacks of the present time have run.
Settled(i) == \A t \in timers : t.inst = i => t.remaining > 0

\* C19: in the suffix revision, for a mounted instance rendered with
\* hideToast false, the toast is rendered exactly while less than the toast
\* duration has passed since its most recent click that showed a toast; the
\* duration is the toastDuration of the render that was clicked, 4000 ms by
\* default.  So the timer of an earlier click does not remove the toast of a
\* later one.
C19_ToastTiming ==
    \A i \in ShInst :
        (variant = "suffix" /\ shMounted[i] /\ shown[i].clicked) =>
            /\ (Clicked(i) /\ shProps[i].hideToast = Undefined) =>
                   /\ shown[i].since = 0
                   /\ shown[i].duration =
                          (IF shProps[i].toastDuration = Undefined THEN 4000
                           ELSE shProps[i].toastDuration.n)
            /\ (Settled(i) /\ shProps[i].hideToast = Undefined) =>
                   (ToastRendered(variant, shMounted[i], shProps[i], internalToast[i])
                       <=> shown[i].since < shown[i].duration)

\* A click replaced the live toast timer of an earlier click; one second
\* later the toast of the later click, of duration 2000 ms, is rendered.
C19_Witness ==
    \E i \in ShInst :
        /\ variant = "suffix" /\ shMounted[i] /\ shProps[i].hideToast = Undefined
        /\ shown[i].clicked /\ shown[i].replaced
        /\ shown[i].duration = 2000 /\ shown[i].since = 1000
        /\ internalToast[i] # Null

\* The toast of a click with the default duration was removed 4000 ms after
\* the click.
C19_WitnessRemoved ==
    \E i \in ShInst :
        /\ variant = "suffix" /\ shMounted[i] /\ shProps[i].hideToast = Undefined
        /\ shLastOp = ShOp("timer", i, shLastOp.platform)
        /\ shown[i].duration = 4000 /\ shown[i].since = 4000
        /\ internalToast[i] = Null

\* C20: the suffix revision never calls window.open, whatever is clicked
\* and however much time passes.
C20_SuffixNeverOpens ==
    variant = "suffix" =>
        /\ Opens(effects) = <<>>
        /\ \A i \in ShInst : nOpens[i] = 0

\* In the suffix revision the toast timer of the second click of an instance
\* fired and no window was opened.
C20_Witness ==
    \E i \in ShInst :
        /\ variant = "suffix" /\ shLastOp.op = "timer" /\ shLastOp.inst = i
        /\ nClicks[i] = 2 /\ nOpens[i] = 0
        /\ internalToast[i] = Null

\* The timers of instance i that are live.
TimersOf(i) == {t \in timers : t.inst = i}

\* The last step was a tick of the countdown of instance i that opened a
\* window.
Opened(i) ==
    shLastOp.op = "timer" /\ shLastOp.inst = i /\ Opens(effects) # <<>>

\* C21: in the countdown revision a window is opened only by a tick of the
\* countdown interval, and that tick stops the interval, clears the toast
\* and then calls window.open once with the url of the clicked platform for
\* the copied text, "_blank" and "noopener,noreferrer"; afterwards the
\* instance has no live timer and no toast.  While the interval is live its
\* progress is above zero, it ticks every 100 ms, and the window of its
\* click has not been opened.
C21_CountdownOpens ==
    variant = "countdown" =>
        /\ Opens(effects) # <<>> => shLastOp.op = "timer"
        /\ \A i \in ShInst :
            /\ Opened(i) =>
                /\ Len(effects) = 3
                /\ effects[1].kind = "clearInterval"
                /\ effects[2] = Effect(i, "setInternalToast", "", <<Null>>)
                /\ effects[3] =
                       Effect(i, "window.open", "",
                              <<Str(GetUrl(shown[i].platform, shown[i].text)),
                                Str("_blank"), Str("noopener,noreferrer")>>)
                /\ shLastOp.platform = shown[i].platform
                /\ TimersOf(i) = {}
                /\ internalToast[i] = Null
            /\ \A t \in TimersOf(i) :
                /\ t.kind = "interval"
                /\ DblLess(<<0, 0>>, t.progress)
                /\ t.remaining <= 100
                /\ nOpens[i] < nClicks[i]
            /\ nOpens[i] <= nClicks[i]
            /\ (shMounted[i] /\ shown[i].clicked /\ TimersOf(i) = {}) =>
                   nOpens[i] >= 1

\* The countdown of the only click of an instance, on the twitter button,
\* reached zero and opened the twitter url for the copied text.
C21_Witness ==
    \E i \in ShInst :
        /\ variant = "countdown" /\ Opened(i)
        /\ nClicks[i] = 1 /\ nOpens[i] = 1
        /\ shown[i].platform = "twitter"
        /\ effects[3].args[1] =
               Str("https://twitter.com/intent/tweet?text="
                       \o EncodeURIComponent(shown[i].text))

\* The calls of the callback prop cb among the effects of the last step.
CallbackCalls(cb) == SelectSeq(effects, LAMBDA e : e.kind = cb)

\* C22: a click calls onShare, when it is supplied, exactly once with the
\* lowercase tag of the clicked platform, and onCopySuccess, when it is
\* supplied, exactly once with that tag and the text written to the
\* clipboard, followed by 3000 in the countdown revision; a prop that is not
\* supplied is not called, and no other step calls either.
C22_CallbacksPerClick ==
    /\ shLastOp.op # "click" =>
           CallbackCalls("onShare") = <<>> /\ CallbackCalls("onCopySuccess") = <<>>
    /\ \A i \in ShInst :
        Clicked(i) =>
            /\ shLastOp.platform \in {"twitter", "facebook", "linkedin", "instagram"}
            /\ Len(Writes(effects)) = 1
            /\ CallbackCalls("onShare") =
                   (IF shProps[i].onShare = "undefined" THEN <<>>
                    ELSE <<Effect(i, "onShare", shProps[i].onShare,
                                  <<Str(shLastOp.platform)>>)>>)
            /\ CallbackCalls("onCopySuccess") =
                   (IF shProps[i].onCopySuccess = "undefined" THEN <<>>
                    ELSE <<Effect(i, "onCopySuccess", shProps[i].onCopySuccess,
                                  <<Str(shLastOp.platform), Writes(effects)[1].args[1]>>
                                  \o (IF variant = "countdown" THEN <<Num(3000)>>
                                      ELSE <<>>))>>)

\* The linkedin button of an instance of the countdown revision rendered
\* with both callbacks was clicked: each was called once, onCopySuccess with
\* three arguments.
C22_Witness ==
    \E i \in ShInst :
        /\ variant = "countdown" /\ Clicked(i) /\ shLastOp.platform = "linkedin"
        /\ shProps[i].onShare = "onShare#1"
        /\ shProps[i].onCopySuccess = "onCopySuccess#1"
        /\ Len(CallbackCalls("onShare")) = 1
        /\ Len(CallbackCalls("onCopySuccess")) = 1
        /\ Len(CallbackCalls("onCopySuccess")[1].args) = 3

\* The same in the suffix revision, where onCopySuccess gets the tag and the
\* text.
C22_WitnessSuffix ==
    \E i \in ShInst :
        /\ variant = "suffix" /\ Clicked(i) /\ shLastOp.platform = "facebook"
        /\ shProps[i].onCopySuccess = "onCopySuccess#2"
        /\ CallbackCalls("onCopySuccess")[1].args =
               <<Str("facebook"), Str("New content")>>

\* The kinds of the effects of the last step.
EffectKinds == {effects[k].kind : k \in DOMAIN effects}

\* C23: in the suffix revision, an instance whose current render has
\* hideToast true renders no internal toast, and a click on it writes the
\* text once and calls the supplied onShare and onCopySuccess once each, but
\* sets no toast and starts or clears no timer: its toast state, its timer
\* handle and the live timers stay as they were.
C23_HideToast ==
    \A i \in ShInst :
        (variant = "suffix" /\ shProps[i].hideToast = Bool(TRUE)) =>
            /\ ~ToastRendered(variant, shMounted[i], shProps[i], internalToast[i])
            /\ Clicked(i) =>
                /\ Len(Writes(effects)) = 1
                /\ Len(CallbackCalls("onShare")) =
                       (IF shProps[i].onShare = "undefined" THEN 0 ELSE 1)
                /\ Len(CallbackCalls("onCopySuccess")) =
                       (IF shProps[i].onCopySuccess = "undefined" THEN 0 ELSE 1)
                /\ EffectKinds \subseteq {"writeText", "onShare", "onCopySuccess"}
                /\ (internalToast[i] = Null) <=> (TimersOf(i) = {})

\* An instance rendered with hideToast true was clicked twice: both
\* callbacks were called, no toast is set and no timer is live.
C23_Witness ==
    \E i \in ShInst :
        /\ variant = "suffix" /\ shProps[i].hideToast = Bool(TRUE)
        /\ Clicked(i) /\ nClicks[i] = 2 /\ nWrites[i] = 2
        /\ ~shown[i].clicked
        /\ Len(CallbackCalls("onShare")) = 1
        /\ Len(CallbackCalls("onCopySuccess")) = 1
        /\ internalToast[i] = Null /\ timers = {}

\* An instance was re-rendered with hideToast true while the toast of an
\* earlier click was set, and clicked: the message is still in the state,
\* but it is not rendered, and its timer runs on as it was.
C23_WitnessAfterToast ==
    \E i \in ShInst :
        /\ variant = "suffix" /\ shProps[i].hideToast = Bool(TRUE)
        /\ Clicked(i) /\ internalToast[i] # Null
        /\ \E t \in TimersOf(i) : t.id = toastTimerRef[i] /\ t.remaining = 3000

\* C24: in the countdown revision the text a click copies is the intro with
\* appName, the emoji and a space when shareEmoji is not empty, shareContent,
\* the note when funnyNote is not empty, the call-to-action and the hashtag,
\* in this order; the call-to-action has "https://app.vana.com" for
\* "app.vana.com" when the platform is facebook or instagram, and is as
\* given when it is twitter or linkedin.
C24_DecoratedPolicy ==
    \A i \in ShInst :
        (variant = "countdown" /\ Clicked(i)) =>
            LET p == shProps[i]
                full == shLastOp.platform \in {"facebook", "instagram"}
                name == IF p.appName = Undefined THEN "undefined" ELSE p.appName.s
                intro == "Tried Vana's " \o name \o ", look what I got:\n\n"
                emoji == IF p.shareEmoji \in {Undefined, Str("")} THEN ""
                         ELSE p.shareEmoji.s \o " "
                note == IF p.funnyNote \in {Undefined, Str("")} THEN ""
                        ELSE "\n\n" \o p.funnyNote.s
                cta == IF p.callToAction = Undefined
                       THEN (IF full THEN "Try @ https://app.vana.com"
                             ELSE "Try @ app.vana.com")
                       ELSE IF p.callToAction = Str("Discover your flavor @ app.vana.com")
                            THEN (IF full
                                  THEN "Discover your flavor @ https://app.vana.com"
                                  ELSE "Discover your flavor @ app.vana.com")
                            ELSE p.callToAction.s
                tag == IF p.hashtag = Undefined THEN "#DATAREVOLUTION"
                       ELSE p.hashtag.s
            IN  WrittenTexts =
                    { intro \o emoji \o p.shareContent.s \o note
                          \o "\n\n" \o cta \o "\n" \o tag }

\* The facebook button of an instance rendered with a call-to-action and a
\* hashtag, and with empty emoji and note, was clicked.
C24_Witness ==
    \E i \in ShInst :
        /\ variant = "countdown" /\ Clicked(i) /\ shLastOp.platform = "facebook"
        /\ WrittenTexts =
               {"Tried Vana's Ice Cream Flavor, look what I got:\n\nNew content\n\nDiscover your flavor @ https://app.vana.com\n#ICECREAM"}

\* The twitter button of an instance rendered with an emoji and a note was
\* clicked.
C24_WitnessTwitter ==
    \E i \in ShInst :
        /\ variant = "countdown" /\ Clicked(i) /\ shLastOp.platform = "twitter"
        /\ WrittenTexts =
               {"Tried Vana's Test App, look what I got:\n\n:) Test content\n\nThis is amazing!\n\nTry @ app.vana.com\n#DATAREVOLUTION"}

\* The suffix a render of the suffix revision with props p appends.
SuffixOf(p) ==
    IF p.suffix = Undefined THEN "\n\nTry @ app.vana.com\n#datarevolution"
    ELSE p.suffix.s

\* C25: the text a click copies is the one the current render of the instance
\* computes from its props: it contains the shareContent (in the suffix
\* revision also the suffix) of the current props and of no other props the
\* instance was or could be rendered with, and it is a function of the
\* current props and the platform alone, so rendering again with the same
\* props changes nothing.
C25_CurrentProps ==
    \A i \in ShInst :
        Clicked(i) =>
            \A text \in WrittenTexts :
                /\ text = RenderedButtons[variant, shProps[i], shLastOp.platform].text
                /\ Contains(text, shProps[i].shareContent.s)
                /\ \A p \in SharePropsChoices :
                    /\ p.shareContent # shProps[i].shareContent =>
                           ~Contains(text, p.shareContent.s)
                    /\ variant = "suffix" =>
                        /\ Contains(text, SuffixOf(shProps[i]))
                        /\ (SuffixOf(p) # SuffixOf(shProps[i]) /\ SuffixOf(p) # "") =>
                               ~Contains(text, SuffixOf(p))

\* An instance of the suffix revision was clicked, re-rendered with another
\* shareContent and an empty suffix, and clicked again: the first click
\* copied "Test content" with the custom suffix, the second "New content".
C25_Witness ==
    \E i \in ShInst :
        /\ variant = "suffix" /\ shMounted[i] /\ Clicked(i) /\ nClicks[i] = 2
        /\ shown[i].clicked
        /\ shown[i].text = "Test content\n\nCustom suffix"
        /\ shProps[i].shareContent = Str("New content")
        /\ WrittenTexts = {"New content"}

\* C26: the listener an upload widget instance has registered is the one
\* its own last effect registered, whatever was done to the other instance:
\* that of its last render once its effects have run, and until then none
\* after a first render and that of the render before otherwise; and the timer and
\* the toast of every share widget instance are the ones of its own last
\* click: the timer is the one its handle names, it is live exactly until
\* the toast duration (suffix revision) or the countdown (countdown
\* revision) of that click has run, with the remaining time and the
\* countdown value that follow from the time since that click, and the
\* toast is set as long as it is live.  So no click, render or unmount of
\* another instance has removed, restarted or changed them.
C26_Isolation ==
    /\ \A j \in Inst :
           ListenersOf(j) =
               IF pending.inst = j
               THEN (IF pending.op = "mount" THEN <<>>
                     ELSE <<Listener(j, pending.old)>>)
               ELSE IF mounted[j] THEN <<Listener(j, props[j])>> ELSE <<>>
    /\ \A j \in ShInst :
        /\ Cardinality(TimersOf(j)) <= 1
        /\ \A t \in TimersOf(j) :
               /\ t.id = toastTimerRef[j] /\ shown[j].clicked
               /\ shMounted[j] \/ shPending = j
        /\ (~shMounted[j] \/ ~shown[j].clicked) => internalToast[j] = Null
        /\ (shMounted[j] /\ shown[j].clicked /\ Settled(j)) =>
            /\ internalToast[j] # Null <=> TimersOf(j) # {}
            /\ variant = "suffix" =>
                /\ TimersOf(j) # {} <=> shown[j].since < shown[j].duration
                /\ \A t \in TimersOf(j) :
                       t.remaining = shown[j].duration - shown[j].since
            /\ variant = "countdown" =>
                /\ TimersOf(j) # {} <=> shown[j].since < 3100
                /\ \A t \in TimersOf(j) :
                    /\ t.remaining = 100 - (shown[j].since % 100)
                    /\ t.countdown = (IF shown[j].since < 1100 THEN 3
                                      ELSE IF shown[j].since < 2100 THEN 2 ELSE 1)
                    /\ ToLowerCase(t.platform) = shown[j].platform
                    /\ internalToast[j] =
                           CountdownMessage(t.platform, t.countdown, t.progress)

\* Two share widget instances are mounted; the first one was clicked 1500 ms
\* ago and the second one has just been clicked: the countdown or toast of
\* the first one runs on.
C26_Witness ==
    /\ shMounted[1] /\ shMounted[2] /\ Clicked(2)
    /\ shown[1].clicked /\ shown[1].since = 1500 /\ shown[2].since = 0
    /\ TimersOf(1) # {} /\ TimersOf(2) # {}
    /\ internalToast[1] # Null /\ internalToast[2] # Null

\* The second share widget instance was unmounted while its own timer and
\* the one of the first instance were live: the first one runs on.
C26_WitnessUnmount ==
    /\ shLastOp = ShOp("unmount", 2, "") /\ shown[2].clicked /\ shown[2].since = 500
    /\ shMounted[1] /\ shown[1].clicked /\ shown[1].since = 1500
    /\ TimersOf(1) # {} /\ TimersOf(2) = {}

\* One upload widget instance was unmounted while the other one is mounted,
\* whose listener is registered.
C26_WitnessListener ==
    \E i, j \in Inst :
        /\ i # j /\ lastOp = [op |-> "unmount", inst |-> i]
        /\ mounted[j] /\ listeners = <<Listener(j, props[j])>>

\* The countdown of the first share widget instance ended while the cleanup
\* of the removed second one was pending: it ran inside that tick and
\* cleared the timer of the second instance only.
C26_WitnessFlush ==
    /\ shLastOp.op = "timer" /\ shLastOp.inst = 1 /\ shMounted[1] /\ ~shMounted[2]
    /\ \E k \in DOMAIN effects :
           effects[k].inst = 2 /\ effects[k].kind = "clearInterval"
    /\ Opens(effects) # <<>> /\ shPending = 0 /\ timers = {}

\* Two upload widget instances are mounted and a message was handled: each
\* has the listener of its own render.
C26_WitnessMessage ==
    /\ Dispatched /\ mounted[1] /\ mounted[2] /\ calls # <<>>
    /\ listeners = <<Listener(1, props[1]), Listener(2, props[2])>>
    /\ props[1] # props[2]

\* On a page with an upload widget and a share widget the upload widget was
\* removed while the toast timer of the share widget was live: it runs on.
C26_WitnessMixed ==
    /\ page = Page({1}, {1}) /\ lastOp = [op |-> "unmount", inst |-> 1]
    /\ shMounted[1] /\ shown[1].clicked /\ shown[1].since = 1500
    /\ TimersOf(1) # {} /\ internalToast[1] # Null

\* On such a page a button of the share widget was clicked while the
\* listener of the upload widget was registered: it still is.
C26_WitnessMixedClick ==
    /\ page = Page({1}, {1}) /\ Clicked(1) /\ TimersOf(1) # {}
    /\ mounted[1] /\ nMsgs = 1 /\ listeners = <<Listener(1, props[1])>>

\* On such a page the click rendered the share widget while the cleanup of
\* the removed upload widget was pending: it ran and removed the listener of
\* the removed widget.
C26_WitnessMixedFlush ==
    /\ page = Page({1}, {1}) /\ Clicked(1) /\ TimersOf(1) # {}
    /\ lastOp = [op |-> "effect", inst |-> 1] /\ ~mounted[1] /\ listeners = <<>>

\* C27: a share widget instance has at most one live timer, a timeout in the
\* suffix revision and an interval in the countdown revision, and it is the
\* one its handle names; a click that shows a toast leaves exactly the timer
\* it started, having cleared the one of an earlier click that was pending,
\* and the one toast of the instance is that of its last such click.
C27_SingleTimer ==
    \A i \in ShInst :
        /\ Cardinality(TimersOf(i)) <= 1
        /\ \A t \in TimersOf(i) :
            /\ t.kind = (IF variant = "countdown" THEN "interval" ELSE "timeout")
            /\ t.id = toastTimerRef[i]
            /\ ToLowerCase(t.platform) = shown[i].platform
        /\ (Clicked(i) /\ "setInternalToast" \in EffectKinds) =>
            /\ \E t \in timers : TimersOf(i) = {t} /\ t.id = nextTimerId - 1
            /\ shown[i].replaced =>
                   (IF variant = "countdown" THEN "clearInterval" ELSE "clearTimeout")
                       \in EffectKinds
            /\ Contains(internalToast[i].description,
                        " " \o Capitalize(shLastOp.platform) \o " ")

\* In the countdown revision the facebook button of an instance was clicked
\* while the countdown of its first click, on another button, was running:
\* one interval is live, the one of the second click.
C27_Witness ==
    \E i \in ShInst :
        /\ variant = "countdown" /\ Clicked(i) /\ shLastOp.platform = "facebook"
        /\ nClicks[i] = 2 /\ shown[i].replaced
        /\ "clearInterval" \in EffectKinds
        /\ Cardinality(TimersOf(i)) = 1
        /\ \A t \in TimersOf(i) : t.id = 2 /\ t.platform = "Facebook"

\* The same in the suffix revision: one timeout is live after the second
\* click.
C27_WitnessSuffix ==
    \E i \in ShInst :
        /\ variant = "suffix" /\ Clicked(i) /\ nClicks[i] = 2 /\ shown[i].replaced
        /\ "clearTimeout" \in EffectKinds
        /\ Cardinality(TimersOf(i)) = 1
        /\ \A t \in TimersOf(i) : t.id = 2

\* C28: in the countdown revision every window that is opened is the one of
\* the last click of the instance: its url is the url of the platform of
\* that click for the text that click copied, and it is opened when the
\* whole countdown has run since that click, 31 ticks of 100 ms.  A click
\* that came while a countdown was running has cancelled it: right after it
\* the only countdown that runs is the new one, at its start, and the
\* window of the earlier click is not opened, so the instance has opened at
\* least one window less than it was clicked, and two less while the new
\* countdown runs.
C28_LastClickOpens ==
    \A i \in ShInst :
        variant = "countdown" =>
            /\ Opened(i) =>
                /\ shown[i].since = 3100
                /\ Len(Opens(effects)) = 1
                /\ Opens(effects)[1].args[1] =
                       Str(GetUrl(shown[i].platform, shown[i].text))
                /\ shLastOp.platform = shown[i].platform
            /\ (Clicked(i) /\ shown[i].replaced) =>
                   \A t \in TimersOf(i) :
                       /\ t.progress = DblOf(100) /\ t.countdown = 3
                       /\ t.remaining = 100
                       /\ ToLowerCase(t.platform) = shLastOp.platform
            /\ (shMounted[i] /\ shown[i].clicked /\ shown[i].replaced) =>
                /\ nOpens[i] <= nClicks[i] - 1
                /\ TimersOf(i) # {} => nOpens[i] <= nClicks[i] - 2

\* The linkedin button of an instance was clicked while the countdown of a
\* click on another button was running; 3100 ms later the linkedin url was
\* opened, the only window opened for the two clicks.
C28_Witness ==
    \E i \in ShInst :
        /\ variant = "countdown" /\ Opened(i) /\ shown[i].replaced
        /\ shown[i].platform = "linkedin" /\ shown[i].since = 3100
        /\ nClicks[i] = 2 /\ nOpens[i] = 1
        /\ Contains(Opens(effects)[1].args[1].s, "linkedin.com")

\* C29: in the countdown revision the url of a window that is opened is the
\* one the current render of the instance builds for that platform, so a
\* countdown that was pending when the props changed does not open a url
\* built from the earlier props.
C29_NoStaleUrl ==
    \A i \in ShInst :
        (variant = "countdown" /\ Opened(i)) =>
            Opens(effects)[1].args[1] =
                Str(RenderedButtons[variant, shProps[i], shLastOp.platform].url)

\* The seconds a countdown toast displays, 0 when it displays none of 3, 2, 1.
SecondsShown(message) ==
    IF Contains(message.description, " in 3... ") THEN 3
    ELSE IF Contains(message.description, " in 2... ") THEN 2
    ELSE IF Contains(message.description, " in 1... ") THEN 1
    ELSE 0

\* The countdown toast of instance i is shown.
CountdownShown(i) == variant = "countdown" /\ internalToast[i] # Null

\* The toast of a countdown has a progress above 0 and at most 100 and
\* displays 3, 2 or 1 seconds; the toast a click sets has progress 100 and
\* displays 3.
CountdownRange ==
    \A i \in ShInst :
        CountdownShown(i) =>
            /\ DblLess(<<0, 0>>, internalToast[i].progress)
            /\ ~DblLess(DblOf(100), internalToast[i].progress)
            /\ SecondsShown(internalToast[i]) \in {1, 2, 3}
            /\ Clicked(i) =>
                /\ internalToast[i].progress = DblOf(100)
                /\ SecondsShown(internalToast[i]) = 3

\* A tick that leaves the toast shown lowers its progress and does not raise
\* the seconds it displays.
CountdownDecreases ==
    \A i \in ShInst :
        (CountdownShown(i) /\ internalToast'[i] # Null /\ shLastOp'.op = "timer") =>
            /\ DblLess(internalToast'[i].progress, internalToast[i].progress)
            /\ SecondsShown(internalToast'[i]) <= SecondsShown(internalToast[i])

\* C30: while a countdown toast is shown its progress is within 0..100 and
\* never 0, it is 100 after the click and no tick raises it; the seconds
\* displayed are 3, 2 or 1, 3 after the click, and no tick raises them.
C30_CountdownProgress == []CountdownRange /\ [][CountdownDecreases]_allVars

\* The 30th tick after a click has run: the toast is still shown, with 1
\* second and a progress above 0 that is less than one step.
C30_Witness ==
    \E i \in ShInst :
        /\ CountdownShown(i) /\ shLastOp = ShOp("timer", i, shown[i].platform)
        /\ shown[i].since = 3000
        /\ SecondsShown(internalToast[i]) = 1
        /\ DblLess(internalToast[i].progress, ProgressStep)

\* The 11th tick after a click has run: the toast displays 2 seconds.
C30_WitnessTwo ==
    \E i \in ShInst :
        /\ CountdownShown(i) /\ shLastOp = ShOp("timer", i, shown[i].platform)
        /\ shown[i].since = 1100
        /\ SecondsShown(internalToast[i]) = 2

\* C31: in the countdown revision the window is opened on the 30th tick of
\* the countdown, 3000 ms after the click, the delay passed to
\* onCopySuccess.
C31_OpensAtDelay ==
    \A i \in ShInst :
        (variant = "countdown" /\ Opened(i)) => shown[i].since = DelayMs

\* The place of the first effect of kind `kind` in the last step, 0 when
\* there is none.
Position(kind) ==
    IF kind \in EffectKinds
    THEN CHOOSE k \in DOMAIN effects :
             effects[k].kind = kind /\ \A j \in 1..(k - 1) : effects[j].kind # kind
    ELSE 0

\* Effect a, when it happened, came before effect b.
Before(a, b) == (Position(a) # 0 /\ Position(b) # 0) => Position(a) < Position(b)

\* C32: a click issues the clipboard write first and once, then calls
\* onShare, then onCopySuccess, then sets the "Copied to clipboard!" toast
\* and starts its timer, whether the write is fulfilled or rejected; the
\* supplied callbacks are called and the toast is set (unless hideToast is
\* set in the suffix revision) in both cases, and no other step writes to
\* the clipboard, so a failed write is not tried again.
C32_FireAndForget ==
    /\ shLastOp.op # "click" => Writes(effects) = <<>>
    /\ \A i \in ShInst :
        Clicked(i) =>
            LET started == IF variant = "countdown" THEN "setInterval" ELSE "setTimeout"
                hidden == variant = "suffix" /\ shProps[i].hideToast = Bool(TRUE)
            IN  /\ effects[1].kind = "writeText"
                /\ effects[1].fn \in {"fulfilled", "rejected"}
                /\ Len(Writes(effects)) = 1
                /\ Before("writeText", "onShare") /\ Before("onShare", "onCopySuccess")
                /\ Before("onCopySuccess", "setInternalToast")
                /\ Before("onShare", "setInternalToast")
                /\ Before("setInternalToast", started)
                /\ Position("onShare") # 0 <=> shProps[i].onShare # "undefined"
                /\ Position("onCopySuccess") # 0 <=>
                       shProps[i].onCopySuccess # "undefined"
                /\ ~hidden =>
                    /\ Position("setInternalToast") # 0 /\ Position(started) # 0
                    /\ internalToast[i] # Null
                    /\ internalToast[i].title = "Copied to clipboard!"

\* The clipboard write of a click was rejected: both callbacks were called,
\* the toast is set and its countdown started.
C32_Witness ==
    \E i \in ShInst :
        /\ variant = "countdown" /\ Clicked(i)
        /\ effects[1].kind = "writeText" /\ effects[1].fn = "rejected"
        /\ Position("onShare") = 2 /\ Position("onCopySuccess") = 3
        /\ Position("setInternalToast") = 4 /\ Position("setInterval") = 5
        /\ internalToast[i] # Null /\ TimersOf(i) # {}

\* The same in the suffix revision.
C32_WitnessSuffix ==
    \E i \in ShInst :
        /\ variant = "suffix" /\ Clicked(i)
        /\ effects[1].kind = "writeText" /\ effects[1].fn = "rejected"
        /\ Position("onShare") = 2 /\ Position("onCopySuccess") = 3
        /\ Position("setInternalToast") = 4 /\ Position("setTimeout") = 5
        /\ internalToast[i] # Null

(***************************************************************************)
(* Further properties of the upload widget.                                  *)
(***************************************************************************)
\* The config messages among the messages the last step posted.
ConfigsPosted == SelectSeq(posted, LAMBDA m : IsConfig(m.message))

\* C33: the upload widget posts a config message only while it handles a
\* ready message from the origin it is configured with: a step that posted
\* one dispatched such a message to the mounted instance that posted it, a
\* mount, re-render or unmount posts nothing, and an instance has posted at
\* most as many config messages as it has received such ready messages.
C33_NoSpontaneousConfig ==
    /\ \A k \in DOMAIN ConfigsPosted :
           /\ FromConfigured(ConfigsPosted[k].inst)
           /\ IsTag(lastEvent, "ready")
    /\ lastOp.op # "dispatch" => posted = <<>>
    /\ \A i \in Inst :
        /\ stats[i].config <= stats[i].ready
        /\ ~Dispatched => PostedOf(i) = <<>>
        /\ (Dispatched /\ ~IsTag(lastEvent, "ready")) =>
               \A k \in DOMAIN PostedOf(i) : ~IsConfig(PostedOf(i)[k].message)

\* An instance that had answered one ready message was re-rendered with
\* other props: nothing was posted.
C33_Witness ==
    \E i \in Inst :
        /\ lastOp = [op |-> "rerender", inst |-> i]
        /\ stats[i].ready = 1 /\ stats[i].config = 1
        /\ posted = <<>>

\* An instance answered its second ready message.
C33_WitnessSecond ==
    \E i \in Inst :
        /\ FromConfigured(i) /\ IsTag(lastEvent, "ready")
        /\ stats[i].ready = 2 /\ stats[i].config = 2
        /\ Len(ConfigsPosted) >= 1

\* The origin instance i is configured with: the iframeOrigin prop of its
\* last render, https://app.vana.com when it is omitted.
ConfiguredOrigin(i) ==
    IF props[i].iframeOrigin = Undefined THEN "https://app.vana.com"
    ELSE props[i].iframeOrigin.s

\* C34: for a mounted upload widget instance the origin its listener accepts,
\* the origin in the src of its iframe (followed by "/embed/upload") and
\* the targetOrigin of every message it posts, config or relayed, are the
\* iframeOrigin it is configured with; it posts only while it handles a
\* message from that origin, and never with a wildcard.
C34_SingleOrigin ==
    \A i \in Inst :
        /\ ~mounted[i] => PostedOf(i) = <<>>
        /\ mounted[i] =>
            /\ IframeSrc(props[i]) = ConfiguredOrigin(i) \o "/embed/upload"
            /\ Registered(i) => Bound(i).iframeOrigin = ConfiguredOrigin(i)
            /\ \A k \in DOMAIN PostedOf(i) :
                /\ PostedOf(i)[k].targetOrigin = ConfiguredOrigin(i)
                /\ PostedOf(i)[k].targetOrigin # "*"
                /\ lastEvent.origin = ConfiguredOrigin(i)
            /\ (Dispatched /\ lastEvent.origin # ConfiguredOrigin(i)) =>
                   /\ PostedOf(i) = <<>>
                   /\ CallsOf(i) = <<>>

\* The number of effects the handler of instance i had in the last step:
\* callbacks invoked, messages posted, and a change of the iframe height.
EffectCount(i) ==
    Len(CallsOf(i)) + Len(PostedOf(i))
        + (IF iframeHeight[i] # prevHeight[i] THEN 1 ELSE 0)

\* The callbacks instance i invoked in the last step are among cbs.
OnlyCalls(i, cbs) == \A k \in DOMAIN CallsOf(i) : CallsOf(i)[k].cb \in cbs

\* C35: handling one message has at most one effect on an instance, the one
\* of the message's tag: resize changes only the height; auth, complete,
\* error and close invoke only onAuth, onResult, onError and onClose, post
\* nothing and leave the height; ready and relay post one message at most,
\* invoke no callback and leave the height; any other tag has no effect.
C35_FrameCondition ==
    \A i \in Inst :
        Dispatched =>
            /\ EffectCount(i) <= 1
            /\ IsTag(lastEvent, "resize") => CallsOf(i) = <<>> /\ PostedOf(i) = <<>>
            /\ \A tag \in {"auth", "complete", "error", "close"} :
                   IsTag(lastEvent, tag) =>
                       /\ PostedOf(i) = <<>>
                       /\ iframeHeight[i] = prevHeight[i]
                       /\ OnlyCalls(i, {CASE tag = "auth"     -> "onAuth"
                                          [] tag = "complete" -> "onResult"
                                          [] tag = "error"    -> "onError"
                                          [] tag = "close"    -> "onClose"})
            /\ \A tag \in {"ready", "relay"} :
                   IsTag(lastEvent, tag) =>
                       CallsOf(i) = <<>> /\ iframeHeight[i] = prevHeight[i]
            /\ (\A tag \in {"resize", "auth", "complete", "error", "close",
                              "ready", "relay"} : ~IsTag(lastEvent, tag)) =>
                   EffectCount(i) = 0

\* An auth message with a wallet address had its one effect on a mounted
\* instance: the call of onAuth.
C35_Witness ==
    \E i \in Inst :
        /\ FromConfigured(i) /\ IsTag(lastEvent, "auth")
        /\ Len(CallsOf(i)) = 1 /\ CallsOf(i)[1].cb = "onAuth"
        /\ EffectCount(i) = 1

\* A resize message changed the height of an instance whose iframe had
\* another height, and nothing else.
C35_WitnessResize ==
    \E i \in Inst :
        /\ FromConfigured(i) /\ IsTag(lastEvent, "resize")
        /\ prevHeight[i] = "500px" /\ iframeHeight[i] = "750px"
        /\ calls = <<>> /\ posted = <<>>

\* Instance i handled the last event, a message of SentData: the effect of
\* its tag took place for i.
Handled(i) ==
    CASE IsTag(lastEvent, "auth") ->
            CallsOf(i) = << [inst |-> i, cb |-> "onAuth", fn |-> Bound(i).onAuth,
                             arg |-> Field.walletAddress] >>
      [] IsTag(lastEvent, "complete") ->
            CallsOf(i) = << [inst |-> i, cb |-> "onResult", fn |-> Bound(i).onResult,
                             arg |-> Field.result] >>
      [] IsTag(lastEvent, "error") ->
            CallsOf(i) = << [inst |-> i, cb |-> "onError", fn |-> Bound(i).onError,
                             arg |-> Field.message] >>
      [] IsTag(lastEvent, "close") ->
            Len(CallsOf(i)) = (IF Bound(i).onClose = "undefined" THEN 0 ELSE 1)
      [] IsTag(lastEvent, "ready") ->
            Len(PostedOf(i)) = 1 /\ IsConfig(PostedOf(i)[1].message)
      [] IsTag(lastEvent, "relay") ->
            PostedOf(i) = << [inst |-> i, message |-> Field.data,
                              targetOrigin |-> Bound(i).iframeOrigin] >>
      [] IsTag(lastEvent, "resize") -> iframeHeight[i] = "500px"
      [] OTHER -> FALSE

\* C36: a mounted upload widget instance handles every message from the
\* origin it is configured with, whichever window sent it: its own iframe,
\* the iframe of another instance or another window of that origin.  So a
\* message from the origin two mounted instances are configured with is
\* handled by both, and a message with a callback makes both invoke theirs.
C36_OriginAlone ==
    /\ \A i \in Inst : FromConfigured(i) => Handled(i)
    /\ (/\ \A i \in Inst : FromConfigured(i)
        /\ \E tag \in {"auth", "complete", "error"} : IsTag(lastEvent, tag)) =>
           /\ Len(calls) = Cardinality(Inst)
           /\ {calls[k].inst : k \in DOMAIN calls} = Inst

\* Two instances with the same iframeOrigin are mounted and the iframe of
\* the first one sent an auth message: both invoked onAuth.
C36_Witness ==
    /\ \A i \in Inst : FromConfigured(i)
    /\ IsTag(lastEvent, "auth") /\ lastEvent.source = "iframe#1"
    /\ Len(calls) = 2
    /\ CallsOf(2) # <<>> /\ CallsOf(2)[1].cb = "onAuth"

\* A window that is the iframe of no instance sent a complete message from
\* the configured origin of a mounted instance, which invoked onResult.
C36_WitnessPopup ==
    \E i \in Inst :
        /\ FromConfigured(i) /\ IsTag(lastEvent, "complete")
        /\ lastEvent.source = "popup"
        /\ Len(CallsOf(i)) = 1 /\ CallsOf(i)[1].cb = "onResult"

\* The last event has tag `tag` and reached instance i from its configured
\* origin.
Received(i, tag) == FromConfigured(i) /\ IsTag(lastEvent, tag)

\* C37: a field that is present but falsy counts as absent.  A relay whose
\* data is 0, false or "" is not forwarded; a resize with height 0 leaves
\* the height; an auth with walletAddress "" and a complete with result ""
\* invoke no callback; an error with message "" invokes onError with the
\* error field, or with "An error occurred" when there is none.  None of
\* them throws, and the first four have no effect at all.
C37_Truthiness ==
    \A i \in Inst :
        /\ (Received(i, "relay") /\ Field.data \in {Num(0), Bool(FALSE), Str("")}) =>
               NoEffectOn(i) /\ i \notin threw
        /\ (Received(i, "resize") /\ Field.height = Num(0)) =>
               NoEffectOn(i) /\ i \notin threw
        /\ (Received(i, "auth") /\ Field.walletAddress = Str("")) =>
               NoEffectOn(i) /\ i \notin threw
        /\ (Received(i, "complete") /\ Field.result = Str("")) =>
               NoEffectOn(i) /\ i \notin threw
        /\ (Received(i, "error") /\ Field.message = Str("")) =>
               /\ i \notin threw
               /\ PostedOf(i) = <<>>
               /\ CallsOf(i) =
                      << [inst |-> i, cb |-> "onError", fn |-> Bound(i).onError,
                          arg |-> IF Field.error = Undefined
                                  THEN Str("An error occurred") ELSE Field.error] >>

\* A relay message whose data is false reached a mounted instance from its
\* configured origin.
C37_Witness ==
    \E i \in Inst :
        /\ Received(i, "relay") /\ Field.data = Bool(FALSE)
        /\ posted = <<>>

\* An error message with an empty message and an error field made onError
\* be called with the error field.
C37_WitnessError ==
    \E i \in Inst :
        /\ Received(i, "error") /\ Field.message = Str("")
        /\ Len(CallsOf(i)) = 1
        /\ CallsOf(i)[1].arg = Str("Error from field")

\* A resize message with height 0 reached an instance whose iframe has a
\* height, which it kept.
C37_WitnessResize ==
    \E i \in Inst :
        /\ Received(i, "resize") /\ Field.height = Num(0)
        /\ iframeHeight[i] = "500px"

====
